---- MODULE Spec2Model ----
(***************************************************************************)
(* Dixie: the client facade (HostClient, main thread), the worker thread   *)
(* (WorkerHostClient and HostProcess) and the host child processes.        *)
(*                                                                         *)
(* One step of the model is one turn of a thread's event loop: the event   *)
(* handler and every promise continuation it makes runnable, up to the     *)
(* next await on something that has not happened yet.  The host child is   *)
(* an external process: what it writes to its stdout, and when it exits,   *)
(* are inputs of the worker's handlers.                                    *)
(***************************************************************************)
EXTENDS Integers, Sequences, FiniteSets, TLC

\* ------------------------------------------------------------------ bounds
MaxRestartAttempts == 2   \* DIXIE_HOST_RETRIES ranges over 1..MaxRestartAttempts
MaxChildren == 3          \* child processes of one worker alive at a time
MaxCalls == 2             \* HostClient.format calls in one behaviour
MaxChunkFrames == 1       \* frames in one stdout "data" event

Sources == {"srcA", "srcB"}
Formatted == "formatted"

VARIABLES
  restartAttempts,   \* HostClient.restartAttempts
  cl,                \* the HostClient instance and its running format call
  buf,               \* the SharedArrayBuffer of the current attempt
  wk,                \* the worker thread: WorkerHostClient, HostProcess objects,
                     \* the children it spawned, its suspended async calls
  hostStarts,        \* spawn() calls made since the running format call began
  view,              \* one SharedArrayBuffer, word by word: state[0], state[1], payload
  writer,            \* where writeResponse stands in the worker thread
  reader,            \* where sendFormatRequest stands in the main thread
  host,              \* one host process with its standard input and output
  codec,             \* a character stream and the two frame decoders reading it
  smoke,             \* one run of the postinstall smoke test
  calc,              \* the arguments and results of the pure functions applied
  pool,              \* the Worker objects a HostClient has created
  timed,             \* a format call against a silent host, with the clock
  pend               \* one HostProcess's table of pending requests

vars == <<restartAttempts, cl, buf, wk, hostStarts, view, writer, reader, host,
          codec, smoke, calc, pool, timed, pend>>
aux == <<calc, pool, timed, pend>>
mem == <<view, writer, reader>>

\* ------------------------------------------------------- worker: the heap
\* A HostProcess: its child (0 is null) and its pending table.
HostProcess0 == [child |-> 0, pending |-> {}]

\* A child process: st is "none", "spawning" (spawn() called, no event yet) or
\* "running"; owner is the HostProcess whose start() waits for its first
\* event; stdinEnded and killed record dispose(); the counters and flags
\* record what was written to it and read from it.
Child0 == [st |-> "none", owner |-> 0, stdinEnded |-> FALSE, killed |-> FALSE,
           initSent |-> 0, initOk |-> FALSE, fmtSent |-> 0, session |-> 0,
           timedOut |-> FALSE, fatal |-> FALSE, fmtFailed |-> FALSE]

NoFrame == [t |-> "none", rid |-> 0, ok |-> FALSE, sev |-> "", big |-> FALSE]
NoOut == [buf |-> 0, status |-> 0, st |-> "", val |-> ""]

\* The worker thread.  host, isInitialized, sessionId are the fields of
\* WorkerHostClient.  The suspended handleMessage/format call is fpc (where it
\* waits: "wSpawn", "wInit", "wFmt", "wExit"; "none" when no call runs) with
\* its locals f...; sWait is the child whose exit the shutdown handler awaits,
\* iWait the children whose exit an invalidateHost() started by a
\* notification awaits.  out is the response written in the current turn.
Worker0 ==
  [ alive |-> FALSE, zombie |-> FALSE, inbox |-> <<>>,
    restartAttempts |-> 1,
    host |-> 0, isInitialized |-> FALSE, sessionId |-> 1,
    hp |-> [h \in 1..(MaxChildren + 1) |-> HostProcess0],
    kids |-> [c \in 1..MaxChildren |-> Child0], spawns |-> 0,
    fpc |-> "none", fNext |-> "", fCmd |-> "", fattempt |-> 0, fLastError |-> "",
    fErr |-> "", fReq |-> 0, fChild |-> 0, fH |-> 0, fBuf |-> 0,
    fRes |-> NoFrame,
    sWait |-> 0, iWait |-> {},
    out |-> NoOut, ovf |-> FALSE ]

\* randomUUID() of createRequest: an id no pending request has.  StaleId
\* stands for the ids of requests that are no longer pending.
StaleId == -1
FreshRequestId(s) ==
  LET used == UNION {{p.id : p \in s.hp[h].pending} : h \in 1..(MaxChildren + 1)}
  IN CHOOSE n \in 1..(MaxChildren + 2) : n \notin used /\ \A m \in 1..(n - 1) : m \in used

\* randomUUID() for a session: a value no format request has carried.
FreshSession(s) ==
  LET used == {s.sessionId} \cup {s.kids[c].session : c \in 1..MaxChildren}
  IN CHOOSE n \in 1..(MaxChildren + 3) : n \notin used /\ \A m \in 1..(n - 1) : m \in used

\* host = null; isInitialized = false; sessionId = randomUUID()
ResetHost(s) ==
  [s EXCEPT !.host = 0, !.isInitialized = FALSE, !.sessionId = FreshSession(s)]

\* Object identities.  A HostProcess that nothing refers to any more (not
\* this.host, no child, no listener of a starting child, no pending entry, not
\* the receiver of a running call) and a child process that has exited are
\* garbage; a new object takes the first free identity.
FreeHosts(s) ==
  {h \in 1..(MaxChildren + 1) :
      /\ s.hp[h] = HostProcess0
      /\ s.host # h /\ s.fH # h
      /\ \A c \in 1..MaxChildren : s.kids[c].owner # h}

FreeChildren(s) == {c \in 1..MaxChildren : s.kids[c].st = "none"}

First(S) == CHOOSE n \in S : \A m \in S : n <= m

\* ---------------------------------------------------- HostProcess methods
\* pending.resolve(envelope): the request promise of id resolves.
Resolve(s, h, id, frame) ==
  LET s1 == [s EXCEPT !.hp[h].pending = {p \in @ : p.id # id}]
  IN IF s.fpc \in {"wInit", "wFmt"} /\ s.fReq = id
     THEN [s1 EXCEPT !.fpc = IF s.fpc = "wInit" THEN "initDone" ELSE "fmtDone",
                     !.fRes = frame, !.fReq = 0]
     ELSE s1

\* pending.reject(error)
Reject(s, h, id, err) ==
  LET s1 == [s EXCEPT !.hp[h].pending = {p \in @ : p.id # id}]
  IN IF s.fpc \in {"wInit", "wFmt"} /\ s.fReq = id
     THEN [s1 EXCEPT !.fpc = "catch", !.fErr = err, !.fReq = 0]
     ELSE s1

rejectAll(s, h, err) ==
  LET ids == {p.id : p \in s.hp[h].pending}
      s1 == [s EXCEPT !.hp[h].pending = {}]
  IN IF s.fpc \in {"wInit", "wFmt"} /\ s.fReq \in ids
     THEN [s1 EXCEPT !.fpc = "catch", !.fErr = err, !.fReq = 0]
     ELSE s1

detachChild(s, h) == [s EXCEPT !.hp[h].child = 0]

\* HostProcess.dispose() up to its await of the child's exit; the caller has
\* checked that this.child is set.
disposeChild(s, h) ==
  LET c == s.hp[h].child
      s1 == detachChild(rejectAll(s, h, "Host process disposed."), h)
  IN [s1 EXCEPT !.kids[c].stdinEnded = TRUE, !.kids[c].killed = TRUE]

\* HostProcess.start() called by the format task on HostProcess h; the task
\* goes on at program point next once the child exists.
start(s, h, next) ==
  IF s.hp[h].child # 0
  THEN [s EXCEPT !.fpc = next, !.fH = h]
  ELSE IF FreeChildren(s) = {}
  THEN [s EXCEPT !.ovf = TRUE, !.fpc = "stuck"]
  ELSE LET c == First(FreeChildren(s))
       IN [s EXCEPT !.spawns = @ + 1,
                    !.kids[c] = [Child0 EXCEPT !.st = "spawning", !.owner = h],
                    !.fpc = "wSpawn", !.fNext = next, !.fChild = c, !.fH = h]

\* HostProcess.request() after its await of start(): the pending entry, its
\* timer, and the frame written to the child's stdin.
requestWrite(s) ==
  LET h == s.fH
      c == s.hp[h].child
      id == FreshRequestId(s)
  IN IF c = 0
     THEN [s EXCEPT !.fpc = "catch", !.fErr = "Host stdin is not available."]
     ELSE [s EXCEPT !.hp[h].pending = @ \cup {[id |-> id, command |-> s.fCmd]},
                    !.kids[c].initSent = IF s.fCmd = "initialize" THEN @ + 1 ELSE @,
                    !.kids[c].fmtSent = IF s.fCmd = "format" THEN @ + 1 ELSE @,
                    !.kids[c].session = IF s.fCmd = "format" THEN s.sessionId ELSE @,
                    !.fpc = IF s.fCmd = "initialize" THEN "wInit" ELSE "wFmt",
                    !.fReq = id, !.fChild = c, !.fNext = "", !.fCmd = "", !.fH = 0]

\* HostProcess.request(): await this.start(), then write.
request(s, h, cmd) == start([s EXCEPT !.fCmd = cmd], h, "reqStarted")

\* ------------------------------------------------ WorkerHostClient methods
\* ensureHost() up to its await of host.start()
ensureHost(s) ==
  LET s1 == IF s.host = 0
            THEN [s EXCEPT !.host = First(FreeHosts(s))]
            ELSE s
  IN start(s1, s1.host, "started")

\* ensureHost() after host.start(): initialize unless isInitialized.  this.host
\* is read again: a null host makes the call throw a TypeError.
ensureHostAfterStart(s) ==
  IF ~s.isInitialized
  THEN IF s.host = 0
       THEN [s EXCEPT !.fpc = "catch", !.fErr = "TypeError"]
       ELSE request(s, s.host, "initialize")
  ELSE [s EXCEPT !.fpc = "ensured", !.fH = 0]

\* ensureHost() after the initialize response
ensureHostAfterInit(s) ==
  IF ~s.fRes.ok
  THEN [s EXCEPT !.fpc = "catch", !.fErr = "Host refused initialize request.",
                 !.fRes = NoFrame]
  ELSE [s EXCEPT !.isInitialized = TRUE, !.kids[s.fChild].initOk = TRUE,
                 !.fpc = "ensured", !.fRes = NoFrame]

\* format(): const host = await this.ensureHost(); host.request(formatRequest)
formatRequest(s) ==
  IF s.host = 0
  THEN [s EXCEPT !.fpc = "catch", !.fErr = "TypeError"]
  ELSE request(s, s.host, "format")

\* invalidateHost() called by the format task's catch block
formatCatch(s) ==
  LET s1 == [s EXCEPT !.fLastError = s.fErr, !.fattempt = @ + 1, !.fErr = "",
                      !.fChild = 0, !.fH = 0]
  IN IF s1.host # 0 /\ s1.hp[s1.host].child # 0
     THEN [disposeChild(s1, s1.host) EXCEPT !.fpc = "wExit",
                                            !.fChild = s1.hp[s1.host].child]
     ELSE [ResetHost(s1) EXCEPT !.fpc = "loop"]

\* writeResponse(view, statusCode, payload) as the caller will see it; the
\* replacement error when the encoded payload exceeds the buffer.
writeResponse(s, statusCode, st, val, big) ==
  IF big
  THEN [s EXCEPT !.out = [buf |-> s.fBuf, status |-> 2, st |-> "error",
                          val |-> "Host response exceeded buffer capacity."]]
  ELSE [s EXCEPT !.out = [buf |-> s.fBuf, status |-> statusCode, st |-> st, val |-> val]]

\* handleMessage returns: the locals of the format call are gone
settle(s) ==
  [s EXCEPT !.fpc = "none", !.fattempt = 0, !.fLastError = "", !.fErr = "",
            !.fRes = NoFrame, !.fChild = 0, !.fH = 0, !.fBuf = 0]

\* format() after the format response, and handleMessage's writeResponse
formatDone(s) ==
  IF ~s.fRes.ok
  THEN [s EXCEPT !.fpc = "catch", !.fErr = "Formatting failed.", !.fRes = NoFrame,
                 !.kids[s.fChild].fmtFailed = TRUE]
  ELSE settle(writeResponse(s, 1, "ok", Formatted, s.fRes.big))

\* The format task from its program point to its next await of an event:
\* WorkerHostClient.format within handleMessage.
RECURSIVE RunFormat(_)
RunFormat(s) ==
  CASE s.fpc = "loop" ->
         IF s.fattempt < s.restartAttempts
         THEN RunFormat(ensureHost(s))
         ELSE settle(writeResponse(s, 2, "error", s.fLastError, FALSE))
    [] s.fpc = "started" -> RunFormat(ensureHostAfterStart(s))
    [] s.fpc = "reqStarted" -> RunFormat(requestWrite(s))
    [] s.fpc = "initDone" -> RunFormat(ensureHostAfterInit(s))
    [] s.fpc = "ensured" -> RunFormat(formatRequest(s))
    [] s.fpc = "fmtDone" -> RunFormat(formatDone(s))
    [] s.fpc = "catch" -> RunFormat(formatCatch(s))
    [] OTHER -> s

\* invalidateHost() called from the fatal-notification handler (void, not
\* awaited): it resets at once unless it has a child's exit to wait for.
invalidateHost(s) ==
  IF s.host # 0 /\ s.hp[s.host].child # 0
  THEN LET c == s.hp[s.host].child
       IN [disposeChild(s, s.host) EXCEPT !.iWait = @ \cup {c}]
  ELSE ResetHost(s)

\* WorkerHostClient.dispose(), run for the shutdown message
dispose(s) ==
  IF s.host = 0
  THEN s
  ELSE IF s.hp[s.host].child # 0
  THEN [disposeChild(s, s.host) EXCEPT !.sWait = s.hp[s.host].child]
  ELSE ResetHost(s)

\* WorkerHostClient.handleNotification
handleNotification(s, f) ==
  IF f.t = "error" /\ f.sev = "fatal"
  THEN invalidateHost(IF s.host # 0
                      THEN rejectAll(s, s.host, "fatal notification")
                      ELSE s)
  ELSE s

\* A variant of handleEnvelope that hands a response to whatever request is
\* pending, without comparing ids.
handleEnvelope_anyId(s, h, f) ==
  IF f.t = "response" /\ s.hp[h].pending # {}
  THEN Resolve(s, h, (CHOOSE p \in s.hp[h].pending : TRUE).id, f)
  ELSE s

\* HostProcess.handleEnvelope on HostProcess h
handleEnvelope(s, h, f) ==
  IF f.t = "response"
  THEN IF f.rid = 0 \/ f.rid \notin {p.id : p \in s.hp[h].pending}
       THEN s
       ELSE Resolve(s, h, f.rid, f)
  ELSE handleNotification(IF f.t = "error" /\ f.sev = "fatal"
                          THEN [s EXCEPT !.kids[s.hp[h].child].fatal = TRUE]
                          ELSE s, f)

\* HostProcess.handleStdoutChunk: the frames of one chunk in order; what is
\* left of the chunk is dropped when detachChild empties stdoutBuffer.
RECURSIVE handleStdoutChunk(_, _, _)
handleStdoutChunk(s, h, frames) ==
  IF frames = <<>> \/ s.hp[h].child = 0
  THEN s
  ELSE handleStdoutChunk(handleEnvelope(s, h, Head(frames)), h, Tail(frames))

ExitError == "Host process exited unexpectedly (code, signal)."

\* A variant of handleExitEvent that forgets the pending requests.
handleExitEvent_keepsPending(s, h) == ResetHost(detachChild(s, h))

\* HostProcess.handleExitEvent and WorkerHostClient.handleExit
handleExitEvent(s, h) ==
  ResetHost(detachChild(rejectAll(s, h, ExitError), h))

\* ------------------------------------------------- worker: event-loop turns
\* The end of a turn of the worker's event loop: the format task runs to its
\* next await; a response it wrote lands in the buffer the message carried.
Turn(s0) ==
  LET s == RunFormat(s0)
  IN /\ ~s.ovf
     /\ wk' = [s EXCEPT !.out = NoOut, !.spawns = 0]
     /\ hostStarts' = hostStarts + s.spawns
     /\ buf' = IF s.out.buf # 0 /\ s.out.buf = buf.id
               THEN [buf EXCEPT !.status = s.out.status, !.st = s.out.st,
                                !.val = s.out.val]
               ELSE buf

\* parentPort.on("message") and handleMessage up to its first await
OnMessage ==
  /\ wk.alive /\ wk.inbox # <<>>
  /\ LET m == Head(wk.inbox)
         s == [wk EXCEPT !.inbox = Tail(@)]
     IN IF m.type = "shutdown"
        THEN Turn(dispose(s))
        ELSE /\ wk.fpc = "none"
             /\ Turn([s EXCEPT !.fpc = "loop", !.fattempt = 0, !.fLastError = "",
                               !.fBuf = m.buf])
  /\ UNCHANGED <<restartAttempts, cl, view, writer, reader, host, codec, smoke, aux>>

\* the child's "spawn" event: handleSpawn in HostProcess.start
OnSpawn(c) ==
  /\ wk.alive /\ wk.kids[c].st = "spawning"
  /\ LET s == [wk EXCEPT !.kids[c].st = "running", !.kids[c].owner = 0,
                          !.hp[wk.kids[c].owner].child = c]
     IN Turn(IF s.fpc = "wSpawn" /\ s.fChild = c
             THEN [s EXCEPT !.fpc = s.fNext]
             ELSE s)
  /\ UNCHANGED <<restartAttempts, cl, view, writer, reader, host, codec, smoke, aux>>

\* the child's "error" event before "spawn": handleError in HostProcess.start
OnSpawnError(c) ==
  /\ wk.alive /\ wk.kids[c].st = "spawning"
  /\ LET s == [wk EXCEPT !.kids[c] = Child0]
     IN Turn(IF s.fpc = "wSpawn" /\ s.fChild = c
             THEN [s EXCEPT !.fpc = "catch", !.fErr = "spawn failed", !.fNext = "", !.fCmd = ""]
             ELSE s)
  /\ UNCHANGED <<restartAttempts, cl, view, writer, reader, host, codec, smoke, aux>>

\* The envelopes a child may write while HostProcess h listens to it.
Frames(h) ==
  {[t |-> "response", rid |-> r, ok |-> TRUE, sev |-> "", big |-> b] :
      r \in {p.id : p \in wk.hp[h].pending}, b \in BOOLEAN}
  \cup {[t |-> "response", rid |-> r, ok |-> FALSE, sev |-> "", big |-> FALSE] :
      r \in {p.id : p \in wk.hp[h].pending}}
  \cup {[t |-> "response", rid |-> r, ok |-> TRUE, sev |-> "", big |-> FALSE] :
      r \in {0, StaleId}}
  \cup {[t |-> "error", rid |-> 0, ok |-> FALSE, sev |-> v, big |-> FALSE] :
      v \in {"fatal", "recoverable"}}
  \cup {[t |-> "log", rid |-> 0, ok |-> FALSE, sev |-> "", big |-> FALSE]}

Chunks(h) ==
  UNION {[1..n -> Frames(h)] : n \in 1..MaxChunkFrames}

\* child.stdout "data": a chunk holding whole frames
OnChunk(h, c) ==
  /\ wk.alive /\ wk.hp[h].child = c
  /\ \E frames \in Chunks(h) : Turn(handleStdoutChunk(wk, h, frames))
  /\ UNCHANGED <<restartAttempts, cl, view, writer, reader, host, codec, smoke, aux>>

\* the child's "exit" event: handleExitEvent while the HostProcess listens,
\* else the once(child, "exit") a dispose() awaits
OnExit(c) ==
  /\ wk.alive /\ wk.kids[c].st = "running"
  /\ LET s == [wk EXCEPT !.kids[c] = Child0]
         hs == {h \in 1..(MaxChildren + 1) : wk.hp[h].child = c}
     IN IF hs # {}
        THEN Turn(handleExitEvent(s, CHOOSE h \in hs : TRUE))
        ELSE IF s.fpc = "wExit" /\ s.fChild = c
        THEN Turn([ResetHost(s) EXCEPT !.fpc = "loop", !.fChild = 0])
        ELSE IF s.sWait = c
        THEN Turn([ResetHost(s) EXCEPT !.sWait = 0])
        ELSE IF c \in s.iWait
        THEN Turn([ResetHost(s) EXCEPT !.iWait = @ \ {c}])
        ELSE Turn(s)
  /\ UNCHANGED <<restartAttempts, cl, view, writer, reader, host, codec, smoke, aux>>

\* the timer of a pending request fires
OnTimer(h) ==
  /\ wk.alive
  /\ \E p \in wk.hp[h].pending :
        Turn(Reject(IF wk.hp[h].child # 0
                    THEN [wk EXCEPT !.kids[wk.hp[h].child].timedOut = TRUE]
                    ELSE wk,
                    h, p.id, "timed out"))
  /\ UNCHANGED <<restartAttempts, cl, view, writer, reader, host, codec, smoke, aux>>

\* the callback of child.stdin.write reports an error
OnWriteError(h) ==
  /\ wk.alive
  /\ \E p \in wk.hp[h].pending : Turn(Reject(wk, h, p.id, "write failed"))
  /\ UNCHANGED <<restartAttempts, cl, view, writer, reader, host, codec, smoke, aux>>

\* worker.terminate() takes effect: the thread and its handles are gone
WorkerTerminated ==
  /\ wk.alive /\ wk.zombie
  /\ wk' = Worker0
  /\ UNCHANGED <<restartAttempts, cl, buf, hostStarts, view, writer, reader, host, codec, smoke, aux>>

\* ------------------------------------------------------ client: HostClient
\* telemetryFile is whether DIXIE_TELEMETRY_FILE is set, telemetry the lines
\* appended to that file since the running call began, warnings the number
\* of log("warn") calls of the fallback, memory-pressure and memory-guard
\* messages.  seenHigh is the number of format responses in a row, up to the
\* last one received, that reported a working set at or above the threshold,
\* seenThreeHigh whether it ever reached three, seenGuard the number of
\* error responses received whose message names MEMORY_BUDGET_EXCEEDED,
\* fallbacks the number of calls that returned the original text.
Client0 ==
  [ pc |-> "idle", source |-> "", attempt |-> 0, lastError |-> "",
    errs |-> <<>>, worker |-> 0, warned |-> FALSE,
    sendCalls |-> 0, disposeCalls |-> 0, calls |-> 0,
    strict |-> FALSE, ret |-> [kind |-> "none", val |-> ""],
    memoryPressureHits |-> 0, memoryPressureWarned |-> FALSE,
    memoryGuardHits |-> 0, memoryGuardWarned |-> FALSE,
    telemetryFile |-> TRUE, telemetry |-> <<>>,
    warnings |-> [fallback |-> 0, pressure |-> 0, guard |-> 0],
    seenHigh |-> 0, seenThreeHigh |-> FALSE, seenGuard |-> 0, fallbacks |-> 0 ]

\* the shared buffer as the payload written in it reads: status and val are
\* payload.status and payload.formatted or payload.message, workingSetMb is
\* payload.metrics.workingSetMb (0 when it is not a number), errorCode is
\* payload.errorCode ("" when the payload has none)
Buf0 == [id |-> 0, status |-> 0, st |-> "", val |-> "", workingSetMb |-> 0,
         errorCode |-> ""]

\* format(source, options, range) is called, for at most limit calls
FormatCall(src, limit) ==
  /\ cl.pc = "idle" /\ cl.calls < limit
  /\ ~wk.zombie
  /\ cl' = [cl EXCEPT !.pc = "send", !.source = src, !.attempt = 0,
                      !.lastError = "", !.errs = <<>>,
                      !.sendCalls = 0, !.disposeCalls = 0,
                      !.strict = FALSE, !.ret = [kind |-> "none", val |-> ""],
                      !.telemetry = <<>>]
  /\ hostStarts' = 0
  /\ UNCHANGED <<restartAttempts, buf, wk, view, writer, reader, host, codec, smoke, aux>>

Format(src) == FormatCall(src, MaxCalls)

\* A variant of the catch block that keeps the first error.
catchAttempt_keepsFirst(c, err) ==
  [c EXCEPT !.lastError = IF @ = "" THEN err ELSE @, !.errs = Append(@, err),
            !.attempt = @ + 1, !.disposeCalls = @ + 1,
            !.worker = 0, !.pc = "send"]

\* A variant of the catch block that does not count the attempt.
catchAttempt_noCount(c, err) ==
  [c EXCEPT !.lastError = err, !.errs = Append(@, err),
            !.disposeCalls = @ + 1, !.worker = 0, !.pc = "send"]

\* the catch block of format's loop, with disposeWorker
catchAttempt(c, err) ==
  [c EXCEPT !.lastError = err, !.errs = Append(@, err),
            !.attempt = @ + 1, !.disposeCalls = @ + 1,
            !.worker = 0, !.pc = "send"]

\* disposeWorker's effect on the worker thread
disposeWorker(w) ==
  IF cl.worker = 0
  THEN w
  ELSE [w EXCEPT !.zombie = TRUE, !.inbox = Append(@, [type |-> "shutdown", buf |-> 0, source |-> ""])]

\* A variant of NewBuffer that hands the previous attempt's buffer out again.
NewBuffer_reused(b) == b

\* new SharedArrayBuffer with its status and length words stored as 0; b is
\* the buffer of the previous attempt
NewBuffer(b) == [Buf0 EXCEPT !.id = IF b.id = 1 THEN 2 ELSE 1]

\* one iteration of format's loop up to Atomics.wait: sendFormatRequest with
\* ensureWorker; startOk is whether the worker script and host binary resolve
Send(startOk) ==
  /\ cl.pc = "send" /\ cl.attempt < restartAttempts
  /\ ~wk.zombie
  /\ IF cl.worker = 0 /\ ~startOk
     THEN /\ cl' = [catchAttempt(cl, "Unable to locate host") EXCEPT !.sendCalls = @ + 1]
          /\ UNCHANGED <<buf, wk>>
     ELSE LET w == IF cl.worker = 0
                   THEN [Worker0 EXCEPT !.alive = TRUE,
                                        !.restartAttempts = restartAttempts]
                   ELSE wk
              sharedBuffer == NewBuffer(buf)
          IN /\ cl' = [cl EXCEPT !.sendCalls = @ + 1, !.pc = "wait",
                                 !.worker = 1]
             /\ buf' = sharedBuffer
             /\ wk' = [w EXCEPT !.inbox = Append(@, [type |-> "format",
                                                    buf |-> sharedBuffer.id,
                                                    source |-> cl.source])]
  /\ UNCHANGED <<restartAttempts, hostStarts, view, writer, reader, host, codec, smoke, aux>>

\* A variant of FallbackWarning that logs at every failure.
FallbackWarning_everyTime(c) ==
  [c EXCEPT !.warned = TRUE, !.warnings.fallback = @ + 1]

\* the warning of handleFailure, logged while this.warned is false
FallbackWarning(c) ==
  IF ~c.warned
  THEN [c EXCEPT !.warned = TRUE, !.warnings.fallback = @ + 1]
  ELSE c

\* A variant of handleFailure that rethrows whatever the mode.
handleFailure_rethrows(strict) ==
  /\ cl.pc = "send" /\ cl.attempt >= restartAttempts
  /\ ~wk.zombie
  /\ cl' = [cl EXCEPT !.pc = "idle", !.calls = @ + 1, !.strict = strict,
                      !.ret = [kind |-> "threw", val |-> cl.lastError]]
  /\ UNCHANGED <<restartAttempts, buf, wk, hostStarts, view, writer, reader, host, codec, smoke, aux>>

\* handleFailure, reached when the loop has used its attempts; strict is
\* what process.env.DIXIE_STRICT_HOST === "1" evaluates to at that moment
handleFailure(strict) ==
  /\ cl.pc = "send" /\ cl.attempt >= restartAttempts
  /\ ~wk.zombie
  /\ cl' = IF strict
           THEN [cl EXCEPT !.pc = "idle", !.calls = @ + 1, !.strict = TRUE,
                           !.ret = [kind |-> "threw", val |-> cl.lastError]]
           ELSE [FallbackWarning(cl) EXCEPT
                           !.pc = "idle", !.calls = @ + 1, !.strict = FALSE,
                           !.fallbacks = @ + 1,
                           !.ret = [kind |-> "returned", val |-> cl.source]]
  /\ UNCHANGED <<restartAttempts, buf, wk, hostStarts, view, writer, reader, host, codec, smoke, aux>>

ClientMemoryBudgetMb == 512   \* getNumberEnv("DIXIE_HOST_MEMORY_BUDGET_MB", 512)
GuardMessage == "MEMORY_BUDGET_EXCEEDED: Host exceeded memory budget."

\* workingSetMb >= this.memoryBudgetMb * 0.85
AtThreshold(workingSetMb) == workingSetMb * 100 >= ClientMemoryBudgetMb * 85

\* observeMemoryPressure; workingSetMb 0 stands for null
observeMemoryPressure(c, workingSetMb) ==
  IF workingSetMb = 0 THEN [c EXCEPT !.memoryPressureHits = 0]
  ELSE IF AtThreshold(workingSetMb)
  THEN LET hits == c.memoryPressureHits + 1
       IN IF ~c.memoryPressureWarned /\ hits >= 3
          THEN [c EXCEPT !.memoryPressureHits = hits, !.memoryPressureWarned = TRUE,
                         !.warnings.pressure = @ + 1]
          ELSE [c EXCEPT !.memoryPressureHits = hits]
  ELSE [c EXCEPT !.memoryPressureHits = 0]

\* observeMemoryGuardTrip; errorCode "" stands for null
observeMemoryGuardTrip(c, errorCode) ==
  IF errorCode # "MEMORY_BUDGET_EXCEEDED" THEN c
  ELSE LET hits == c.memoryGuardHits + 1
       IN IF ~c.memoryGuardWarned /\ hits >= 3
          THEN [c EXCEPT !.memoryGuardHits = hits, !.memoryGuardWarned = TRUE,
                         !.warnings.guard = @ + 1]
          ELSE [c EXCEPT !.memoryGuardHits = hits]

\* recordTelemetry: a line of the telemetry file
recordTelemetry(c, success, error) ==
  IF ~c.telemetryFile THEN c
  ELSE [c EXCEPT !.telemetry = Append(@, [success |-> success, error |-> error])]

\* what the client has been answered so far, for the properties
Seen(c, b) ==
  LET high == b.status = 1 /\ b.st = "ok" /\ b.workingSetMb # 0
              /\ AtThreshold(b.workingSetMb)
      n == IF high THEN c.seenHigh + 1 ELSE 0
  IN [c EXCEPT !.seenHigh = n, !.seenThreeHigh = @ \/ n >= 3,
               !.seenGuard = IF b.st = "error" /\ b.val = GuardMessage /\ @ < 3
                             THEN @ + 1 ELSE @]

\* Atomics.wait returns because the status word changed: the rest of
\* sendFormatRequest
Wake ==
  /\ cl.pc = "wait" /\ buf.status # 0
  /\ IF buf.status = 1 /\ buf.st = "ok"
     THEN /\ cl' = [recordTelemetry(
                      [observeMemoryPressure(Seen(cl, buf), buf.workingSetMb)
                         EXCEPT !.memoryGuardHits = 0], TRUE, "")
                      EXCEPT !.pc = "idle", !.calls = @ + 1,
                             !.ret = [kind |-> "returned", val |-> buf.val]]
          /\ wk' = wk
     ELSE IF buf.st = "error"
     THEN /\ cl' = catchAttempt(
                     recordTelemetry(observeMemoryGuardTrip(Seen(cl, buf), buf.errorCode),
                                     FALSE, buf.val), buf.val)
          /\ wk' = disposeWorker(wk)
     ELSE /\ cl' = catchAttempt(cl, "Host worker returned an unexpected response.")
          /\ wk' = disposeWorker(wk)
  /\ UNCHANGED <<restartAttempts, buf, hostStarts, view, writer, reader, host, codec, smoke, aux>>

\* Atomics.wait returns "timed-out"
Timeout ==
  /\ cl.pc = "wait" /\ buf.status = 0
  /\ cl' = catchAttempt(cl, "Host request timed out")
  /\ wk' = disposeWorker(wk)
  /\ UNCHANGED <<restartAttempts, buf, hostStarts, view, writer, reader, host, codec, smoke, aux>>

\* ------------------------------------------- the shared buffer, in detail
Capacity == 2        \* view.payload.length
MaxEncoded == 3      \* bytes of the longest encoded response
Bytes == {1, 2}
Fallback == <<9>>    \* the encoded "exceeded buffer capacity" error
Encodings == UNION {[1..n -> Bytes] : n \in 1..MaxEncoded}

View0 == [status |-> 0, length |-> 0, payload |-> [i \in 1..Capacity |-> 0]]
Writer0 == [pc |-> 0, i |-> 0, statusCode |-> 0, encoded |-> <<>>]
Reader0 == [pc |-> "call", finalStatus |-> 0, length |-> 0, i |-> 0, decoded |-> <<>>]

Min(a, b) == IF a < b THEN a ELSE b

\* A variant of Outcome that cuts a response that is too long to the capacity.
Outcome_truncates(statusCode, encoded) ==
  [bytes |-> SubSeq(encoded, 1, Min(Len(encoded), Capacity)), status |-> statusCode]

\* The bytes, length and status writeResponse is to publish.
Outcome(statusCode, encoded) ==
  IF Len(encoded) > Capacity
  THEN [bytes |-> SubSeq(Fallback, 1, Min(Len(Fallback), Capacity)), status |-> 2]
  ELSE [bytes |-> encoded, status |-> statusCode]

\* A variant of WriteOrder that publishes length and status before the bytes.
WriteOrder_statusEarly == <<"length", "status", "payload", "notify">>

\* The statements of writeResponse in program order.
WriteOrder == <<"payload", "length", "status", "notify">>

\* The worker executes the next store of writeResponse.  payload.set copies
\* byte by byte.
WriterStep ==
  /\ writer.pc \in 1..Len(WriteOrder)
  /\ LET what == WriteOrder[writer.pc]
         o == Outcome(writer.statusCode, writer.encoded)
     IN CASE what = "payload" ->
               /\ view' = [view EXCEPT !.payload[writer.i + 1] = o.bytes[writer.i + 1]]
               /\ writer' = IF writer.i + 1 = Len(o.bytes)
                            THEN [writer EXCEPT !.pc = @ + 1, !.i = 0]
                            ELSE [writer EXCEPT !.i = @ + 1]
               /\ reader' = reader
          [] what = "length" ->
               /\ view' = [view EXCEPT !.length = Len(o.bytes)]
               /\ writer' = [writer EXCEPT !.pc = @ + 1]
               /\ reader' = reader
          [] what = "status" ->
               /\ view' = [view EXCEPT !.status = o.status]
               /\ writer' = [writer EXCEPT !.pc = @ + 1]
               /\ reader' = reader
          [] what = "notify" ->
               /\ view' = view
               /\ writer' = [writer EXCEPT !.pc = @ + 1]
               /\ reader' = IF reader.pc = "asleep"
                            THEN [reader EXCEPT !.pc = "loadStatus"]
                            ELSE reader
  /\ UNCHANGED <<restartAttempts, cl, buf, wk, hostStarts, host, codec, smoke, aux>>

\* Atomics.wait(view.state, 0, 0, overallTimeout) is called
ReaderWait ==
  /\ reader.pc = "call"
  /\ reader' = [reader EXCEPT !.pc = IF view.status # 0 THEN "loadStatus" ELSE "asleep"]
  /\ UNCHANGED <<restartAttempts, cl, buf, wk, hostStarts, view, writer, host, codec, smoke, aux>>

\* the wait ends with "timed-out"
ReaderTimeout ==
  /\ reader.pc = "asleep"
  /\ reader' = [reader EXCEPT !.pc = "threw"]
  /\ UNCHANGED <<restartAttempts, cl, buf, wk, hostStarts, view, writer, host, codec, smoke, aux>>

\* payload.status of the parsed response: the first byte of an encoding
\* stands for the status field, 1 for "ok"; the fallback is an "error" payload
PayloadStatus(bytes) == IF bytes[1] = 1 THEN "ok" ELSE "error"

\* what sendFormatRequest does with the parsed response: it returns the
\* formatted text or throws
Verdict(finalStatus, bytes) ==
  IF finalStatus = 1 /\ PayloadStatus(bytes) = "ok" THEN "returned" ELSE "failed"

\* the loads, the decode and the parse that follow the wait in
\* sendFormatRequest
ReaderStep ==
  /\ CASE reader.pc = "loadStatus" ->
            reader' = [reader EXCEPT !.pc = "loadLength", !.finalStatus = view.status]
       [] reader.pc = "loadLength" ->
            reader' = [reader EXCEPT !.length = view.length,
                                     !.pc = IF view.length <= 0 THEN "threw" ELSE "decode"]
       [] reader.pc = "decode" ->
            reader' = [reader EXCEPT !.decoded = Append(@, view.payload[reader.i + 1]),
                                     !.i = @ + 1,
                                     !.pc = IF reader.i + 1 = reader.length
                                            THEN "done" ELSE "decode"]
       [] reader.pc = "done" ->
            reader' = [reader EXCEPT !.pc = Verdict(reader.finalStatus, reader.decoded)]
       [] OTHER -> FALSE
  /\ UNCHANGED <<restartAttempts, cl, buf, wk, hostStarts, view, writer, host, codec, smoke, aux>>

\* The host: pos units of stdin are consumed, read lists the positions of the
\* bodies ReadBody returned, eof records that a read met the end of the
\* stream, post is postCollectWorkingSet of the frame just handled, exitCode is
\* -1 while the process runs.
Host0 == [pc |-> "readHeaders", stdin |-> <<>>, pos |-> 0, stdout |-> <<>>,
          read |-> <<>>, exitCode |-> -1, eof |-> FALSE, post |-> 0]

\* no function has been applied
Calc0 == [fn |-> "none"]

\* no worker has been created.  clearedNewer and disposedNewer record that an
\* event of one worker cleared the reference to, or disposed, another one.
MaxPoolCalls == 2    \* HostClient.format calls in one behaviour of SpecPool
MaxWorkers == MaxPoolCalls * MaxRestartAttempts

PoolWorker0 == [st |-> "none", errorPending |-> FALSE, exitPending |-> FALSE,
                disposed |-> FALSE]
Pool0 == [worker |-> 0, created |-> 0, calls |-> 0, inEvent |-> 0,
          ws |-> [w \in 1..MaxWorkers |-> PoolWorker0],
          clearedNewer |-> FALSE, disposedNewer |-> FALSE]

\* no call has been made
Timed0 == [pc |-> "idle", now |-> 0, attempt |-> 0, waitStart |-> 0, waitUntil |-> -1,
           status |-> 0, mode |-> "", wpc |-> "off", wattempt |-> 0, wtimer |-> -1,
           failed |-> 0, timedOut |-> FALSE]

\* A HostProcess before its first child, and a request id before request().
MaxRequests == 3   \* requests made of one HostProcess
MaxStarts == 2     \* children one HostProcess spawns

Req0 == [made |-> FALSE, settled |-> FALSE, timer |-> FALSE, write |-> "none",
         outcomes |-> 0, outcome |-> ""]
Pend0 == [child |-> FALSE, starts |-> 0, pending |-> {},
          reqs |-> [id \in 1..MaxRequests |-> Req0], last |-> "none"]

\* no stream: nothing encoded, nothing decoded
Codec0 == [pieces |-> <<>>, stream |-> <<>>, pos |-> 0, stdoutBuffer |-> <<>>,
           envelopes |-> <<>>, parsed |-> FALSE,
           batch |-> [envelopes |-> <<>>, threw |-> FALSE]]

\* runSmokeTest has not been called
Smoke0 ==
  [ pc |-> "idle", strict |-> FALSE, now |-> 0, deadline |-> -1,
    unread |-> <<>>, running |-> FALSE, exitCode |-> -1, epipe |-> FALSE,
    killed |-> FALSE, threw |-> FALSE,
    waitAt |-> -1, initAt |-> -1, shutdownAt |-> -1, exitAt |-> -1,
    errorEmitted |-> FALSE ]

InitBuf ==
  /\ restartAttempts = 1
  /\ cl = Client0
  /\ buf = Buf0
  /\ wk = Worker0
  /\ hostStarts = 0
  /\ view = View0
  /\ reader = Reader0
  /\ host = Host0
  /\ codec = Codec0 /\ smoke = Smoke0
  /\ calc = Calc0 /\ pool = Pool0 /\ timed = Timed0 /\ pend = Pend0
  /\ \E code \in {1, 2}, e \in Encodings :
        writer = [pc |-> 1, i |-> 0, statusCode |-> code, encoded |-> e]

NextBuf ==
  \/ WriterStep
  \/ ReaderWait
  \/ ReaderTimeout
  \/ ReaderStep

SpecBuf == InitBuf /\ [][NextBuf]_vars

\* ------------------------------------- the client and what its worker answers
MaxClientCalls == 4     \* HostClient.format calls in one behaviour of SpecClient

ClientWorkingSetsMb == {0, 435, 436}   \* metrics.workingSetMb; 0 is "not a number"

\* what WorkerHostClient.format ends with in handleMessage: a result with
\* its metrics, or an error thrown with a message
WorkerOutcomes ==
  {[ok |-> TRUE, workingSetMb |-> w, message |-> ""] : w \in ClientWorkingSetsMb}
  \cup {[ok |-> FALSE, workingSetMb |-> 0, message |-> m] :
          m \in {GuardMessage, "Formatting failed."}}

\* handleMessage for a format message, from the message to writeResponse:
\* the payload is {status, formatted, diagnostics, metrics} or
\* {status, message}
handleMessage(outcome) ==
  /\ cl.pc = "wait" /\ buf.status = 0
  /\ wk.alive /\ ~wk.zombie
  /\ wk.inbox # <<>> /\ Head(wk.inbox).type = "format" /\ Head(wk.inbox).buf = buf.id
  /\ buf' = IF outcome.ok
            THEN [buf EXCEPT !.status = 1, !.st = "ok", !.val = Formatted,
                             !.workingSetMb = outcome.workingSetMb]
            ELSE [buf EXCEPT !.status = 2, !.st = "error", !.val = outcome.message]
  /\ wk' = [wk EXCEPT !.inbox = Tail(@)]
  /\ UNCHANGED <<restartAttempts, cl, hostStarts, view, writer, reader, host, codec, smoke, aux>>

InitClient ==
  /\ restartAttempts \in 1..MaxRestartAttempts
  /\ \E telemetryFile \in BOOLEAN : cl = [Client0 EXCEPT !.telemetryFile = telemetryFile]
  /\ buf = Buf0
  /\ wk = Worker0
  /\ hostStarts = 0
  /\ view = View0 /\ writer = Writer0 /\ reader = Reader0
  /\ host = Host0
  /\ codec = Codec0 /\ smoke = Smoke0
  /\ calc = Calc0 /\ pool = Pool0 /\ timed = Timed0 /\ pend = Pend0

NextClient ==
  \/ \E src \in Sources : FormatCall(src, MaxClientCalls)
  \/ \E startOk \in BOOLEAN : Send(startOk)
  \/ \E strict \in BOOLEAN : handleFailure(strict)
  \/ Wake
  \/ Timeout
  \/ \E outcome \in WorkerOutcomes : handleMessage(outcome)
  \/ WorkerTerminated

SpecClient == InitClient /\ [][NextClient]_vars

\* ------------------------------------------ framing: ipc.ts and host-worker.ts
\* Text is a sequence of characters. "r" and "n" are carriage return and line
\* feed, "L" the text "Content-Length:" , "x" a letter, "-" a minus sign,
\* "0".."9" digits, "{" "}" "a" "u" the characters of a JSON text; "u" is a
\* character outside ASCII: one UTF-16 code unit, two bytes of UTF-8.
MaxPayload == 2      \* characters of an envelope's payload
MaxPieces == 2       \* frames a stream is put together from

Digits == <<"0", "1", "2", "3", "4", "5", "6", "7", "8", "9">>
IsDigit(c) == \E d \in 1..10 : Digits[d] = c
DigitValue(c) == (CHOOSE d \in 1..10 : Digits[d] = c) - 1

\* an envelope is told from another by its payload
Envelopes == UNION {[1..n -> {"a", "u"}] : n \in 0..MaxPayload}

\* Buffer.byteLength(text, "utf8")
RECURSIVE ByteLength(_)
ByteLength(text) ==
  IF text = <<>> THEN 0
  ELSE (IF Head(text) = "u" THEN 2 ELSE 1) + ByteLength(Tail(text))

\* `${bytes}`: the decimal digits of a number
RECURSIVE Decimal(_)
Decimal(bytes) ==
  IF bytes < 10 THEN <<Digits[bytes + 1]>>
  ELSE Decimal(bytes \div 10) \o <<Digits[(bytes % 10) + 1]>>

\* JSON.stringify of an envelope
JSONstringify(e) == <<"{">> \o e \o <<"}">>

\* JSON.parse followed by messageEnvelopeSchema.parse: ok is FALSE when
\* either throws
JSONparse(text) ==
  IF /\ Len(text) >= 2 /\ text[1] = "{" /\ text[Len(text)] = "}"
     /\ \A i \in 2..(Len(text) - 1) : text[i] \in {"a", "u"}
  THEN [ok |-> TRUE, envelope |-> SubSeq(text, 2, Len(text) - 1)]
  ELSE [ok |-> FALSE, envelope |-> <<>>]

encodeMessage(e) ==
  LET json == JSONstringify(e)
      bytes == ByteLength(json)
  IN <<"L">> \o Decimal(bytes) \o <<"r", "n", "r", "n">> \o json

\* output.indexOf("\r\n\r\n", cursor) as a position from 1; 0 when absent
IndexOfTerminator(output, cursor) ==
  LET hits == {i \in cursor..(Len(output) - 3) :
                 /\ output[i] = "r" /\ output[i + 1] = "n"
                 /\ output[i + 2] = "r" /\ output[i + 3] = "n"}
  IN IF hits = {} THEN 0 ELSE CHOOSE i \in hits : \A j \in hits : i <= j

\* headerBlock.split("\r\n")
RECURSIVE SplitLines(_, _)
SplitLines(block, line) ==
  IF block = <<>> THEN <<line>>
  ELSE IF Len(block) >= 2 /\ block[1] = "r" /\ block[2] = "n"
  THEN <<line>> \o SplitLines(SubSeq(block, 3, Len(block)), <<>>)
  ELSE SplitLines(Tail(block), Append(line, Head(block)))

\* headers.find(line => line.toLowerCase().startsWith("content-length")):
\* <<"none">> stands for undefined
ContentLengthLine(headers) ==
  LET found == {i \in 1..Len(headers) : headers[i] # <<>> /\ headers[i][1] = "L"}
  IN IF found = {} THEN <<"none">>
     ELSE headers[CHOOSE i \in found : \A j \in found : i <= j]

\* contentLengthLine.split(":")[1]: the text between the first colon and the
\* next one
RECURSIVE UpToColon(_)
UpToColon(text) ==
  IF text = <<>> \/ Head(text) = "L" THEN <<>>
  ELSE <<Head(text)>> \o UpToColon(Tail(text))

\* String.prototype.trim: the alphabet has no white space but "r" and "n",
\* and a line of a header block ends before them
RECURSIVE Trim(_)
Trim(text) ==
  IF text # <<>> /\ Head(text) \in {"r", "n"} THEN Trim(Tail(text)) ELSE text

\* the value of the longest prefix of text made of digits; acc is the value
\* of the digits read so far
RECURSIVE DigitsValue(_, _)
DigitsValue(text, acc) ==
  IF text = <<>> \/ ~IsDigit(Head(text)) THEN acc
  ELSE DigitsValue(Tail(text), 10 * acc + DigitValue(Head(text)))

\* Number.parseInt(text, 10) of a trimmed text: an optional sign and the
\* digits that follow it, whatever comes after them; NaN without a digit
ParseInt(text) ==
  LET negative == text # <<>> /\ Head(text) = "-"
      digits == IF negative THEN Tail(text) ELSE text
  IN IF digits = <<>> \/ ~IsDigit(Head(digits))
     THEN [nan |-> TRUE, value |-> 0]
     ELSE [nan |-> FALSE,
           value |-> IF negative THEN 0 - DigitsValue(digits, 0)
                     ELSE DigitsValue(digits, 0)]

\* the Content-Length of a header block: valid is FALSE when the line is
\* missing or its value is NaN or negative
ContentLength(headerBlock) ==
  LET contentLengthLine == ContentLengthLine(SplitLines(headerBlock, <<>>))
      length == ParseInt(Trim(UpToColon(Tail(contentLengthLine))))
  IN IF contentLengthLine = <<"none">> \/ length.nan \/ length.value < 0
     THEN [valid |-> FALSE, length |-> 0]
     ELSE [valid |-> TRUE, length |-> length.value]

\* the loop at the end of parseEnvelopes' body that skips "\r" and "\n"
RECURSIVE SkipNewlines(_, _)
SkipNewlines(output, cursor) ==
  IF cursor <= Len(output) /\ output[cursor] \in {"r", "n"}
  THEN SkipNewlines(output, cursor + 1)
  ELSE cursor

\* parseEnvelopes from cursor on (a position from 1); threw is TRUE when
\* JSON.parse or the schema throws out of the function
RECURSIVE ParseFrom(_, _, _)
ParseFrom(output, cursor, envelopes) ==
  LET done == [envelopes |-> envelopes, threw |-> FALSE]
      headerEnd == IndexOfTerminator(output, cursor)
      header == ContentLength(SubSeq(output, cursor, headerEnd - 1))
      bodyStart == headerEnd + 4
      bodyEnd == bodyStart + header.length
      raw == JSONparse(SubSeq(output, bodyStart, bodyEnd - 1))
  IN IF cursor > Len(output) THEN done
     ELSE IF headerEnd = 0 THEN done
     ELSE IF ~header.valid THEN done
     ELSE IF bodyEnd - 1 > Len(output) THEN done
     ELSE IF ~raw.ok THEN [envelopes |-> envelopes, threw |-> TRUE]
     ELSE ParseFrom(output, SkipNewlines(output, bodyEnd),
                    Append(envelopes, raw.envelope))

parseEnvelopes(output) == ParseFrom(output, 1, <<>>)

\* the loop of handleStdoutChunk on this.stdoutBuffer; envelopes are the
\* bodies handleEnvelope parsed, a body it cannot parse is logged and dropped
RECURSIVE DrainStdout(_, _)
DrainStdout(stdoutBuffer, envelopes) ==
  LET done == [stdoutBuffer |-> stdoutBuffer, envelopes |-> envelopes]
      headerEnd == IndexOfTerminator(stdoutBuffer, 1)
      header == ContentLength(SubSeq(stdoutBuffer, 1, headerEnd - 1))
      totalFrameLength == (headerEnd - 1) + 4 + header.length
      body == JSONparse(SubSeq(stdoutBuffer, headerEnd + 4, totalFrameLength))
  IN IF headerEnd = 0 THEN done
     ELSE IF ~header.valid
     THEN DrainStdout(SubSeq(stdoutBuffer, headerEnd + 4, Len(stdoutBuffer)), envelopes)
     ELSE IF Len(stdoutBuffer) < totalFrameLength THEN done
     ELSE DrainStdout(SubSeq(stdoutBuffer, totalFrameLength + 1, Len(stdoutBuffer)),
                      IF body.ok THEN Append(envelopes, body.envelope) ELSE envelopes)

\* header blocks that carry no usable Content-Length: a value that is not a
\* number, no Content-Length line, no value, a negative value
BadHeaders == {<<"L", "x">>, <<"x">>, <<"L">>, <<"L", "-", "3">>}

\* a header block whose value starts with the length of the body and goes on
\* with a letter
TrailingHeaders == {<<"L", "3", "x">>}

\* the pieces of a stream: an encoded envelope, or a header block of one of
\* the kinds above followed by its terminator and the JSON text of an envelope
Pieces ==
  {[kind |-> "encoded", e |-> e, text |-> encodeMessage(e)] : e \in Envelopes}
  \cup {[kind |-> "bad", e |-> <<"a">>,
         text |-> hd \o <<"r", "n", "r", "n">> \o JSONstringify(<<"a">>)] : hd \in BadHeaders}
  \cup {[kind |-> "trailing", e |-> <<"a">>,
         text |-> hd \o <<"r", "n", "r", "n">> \o JSONstringify(<<"a">>)] : hd \in TrailingHeaders}

RECURSIVE Concat(_)
Concat(pieces) ==
  IF pieces = <<>> THEN <<>> ELSE Head(pieces).text \o Concat(Tail(pieces))

\* parseEnvelopes is called on the whole stream
Parse ==
  /\ ~codec.parsed /\ codec.pieces # <<>>
  /\ codec' = [codec EXCEPT !.parsed = TRUE, !.batch = parseEnvelopes(codec.stream)]
  /\ UNCHANGED <<restartAttempts, cl, buf, wk, hostStarts, view, writer, reader,
               host, smoke, aux>>

\* a "data" event of the child's stdout with the next k characters of the
\* stream: handleStdoutChunk
OnData(k) ==
  /\ codec.pos + k <= Len(codec.stream)
  /\ LET chunk == SubSeq(codec.stream, codec.pos + 1, codec.pos + k)
         r == DrainStdout(codec.stdoutBuffer \o chunk, codec.envelopes)
     IN codec' = [codec EXCEPT !.pos = @ + k, !.stdoutBuffer = r.stdoutBuffer,
                               !.envelopes = r.envelopes]
  /\ UNCHANGED <<restartAttempts, cl, buf, wk, hostStarts, view, writer, reader,
               host, smoke, aux>>

InitCodec ==
  /\ restartAttempts = 1
  /\ cl = Client0
  /\ buf = Buf0
  /\ wk = Worker0
  /\ hostStarts = 0
  /\ view = View0 /\ writer = Writer0 /\ reader = Reader0
  /\ host = Host0 /\ smoke = Smoke0
  /\ calc = Calc0 /\ pool = Pool0 /\ timed = Timed0 /\ pend = Pend0
  /\ \E n \in 1..MaxPieces : \E pieces \in [1..n -> Pieces] :
        codec = [Codec0 EXCEPT !.pieces = pieces, !.stream = Concat(pieces)]

NextCodec ==
  \/ Parse
  \/ \E k \in 1..Len(codec.stream) : OnData(k)

SpecCodec == InitCodec /\ [][NextCodec]_vars

\* --------------------------------------- postinstall.mjs: the host smoke test
SMOKE_TEST_TIMEOUT_MS == 8000
SMOKE_TEST_SHUTDOWN_TIMEOUT_MS == 4000
TickMs == 2000       \* the longest step of the clock
MaxUnread == 2       \* envelopes on the child's stdout not yet read

\* what the host writes: the response to initialize with ok true or false,
\* an error notification, a log notification, a response to another request,
\* a frame without Content-Length or with a body that is not JSON
SmokeEnvelopes == {"initOk", "initRefused", "error", "log", "stale", "garbage"}
ExitCodes == {0, 1, 86}

\* pc is where runSmokeTest stands: "writeInit" and "writeShutdown" await
\* the callback of stream.write, "waitInit" awaits waitForResponse, "waitExit"
\* the race of the child and the timer.  now is the time in ms, deadline the
\* time the pending timer fires at (-1 without one), unread the envelopes
\* stdout holds for the "data" listener.  waitAt, initAt, shutdownAt, exitAt
\* are the times waitForResponse was called, the initialize response was
\* read, stdin was ended and the child exited; errorEmitted is whether the
\* host wrote an error notification before the test ended.
SmokeStart(strict) ==
  [Smoke0 EXCEPT !.pc = "writeInit", !.strict = strict, !.running = TRUE]

SmokeEnded == smoke.pc \in {"idle", "passed", "failed"}

\* the catch and finally blocks of runSmokeTest
SmokeFail(s) ==
  [s EXCEPT !.pc = "failed", !.deadline = -1, !.threw = s.strict,
            !.killed = s.running, !.unread = <<>>]

\* the end of the try block, and finally
SmokePass(s) ==
  [s EXCEPT !.pc = "passed", !.deadline = -1, !.killed = s.running, !.unread = <<>>]

\* runSmokeTest once the child has settled in the race
AfterExit(s) == IF s.exitCode # 0 THEN SmokeFail(s) ELSE SmokePass(s)

\* runSmokeTest is called: the child is spawned and the initialize request
\* is written
RunSmokeTest(strict) ==
  /\ smoke.pc = "idle"
  /\ smoke' = SmokeStart(strict)
  /\ UNCHANGED <<restartAttempts, cl, buf, wk, hostStarts, view, writer, reader,
               host, codec, aux>>

\* the callback of stream.write in writeEnvelope; error is whether it
\* carries one.  After the initialize request waitForResponse attaches its
\* listeners and starts its timer; after the shutdown request stdin is ended
\* and the race starts, which a child that has exited wins at once.
WriteCallback(error) ==
  /\ smoke.pc \in {"writeInit", "writeShutdown"}
  /\ smoke.epipe => error
  /\ smoke' =
       IF error THEN SmokeFail(smoke)
       ELSE IF smoke.pc = "writeInit"
       THEN [smoke EXCEPT !.pc = "waitInit", !.waitAt = smoke.now,
                          !.deadline = smoke.now + SMOKE_TEST_TIMEOUT_MS]
       ELSE LET s == [smoke EXCEPT !.pc = "waitExit", !.shutdownAt = smoke.now,
                                   !.deadline = smoke.now + SMOKE_TEST_SHUTDOWN_TIMEOUT_MS]
            IN IF s.running THEN s ELSE AfterExit(s)
  /\ UNCHANGED <<restartAttempts, cl, buf, wk, hostStarts, view, writer, reader,
               host, codec, aux>>

\* the host writes an envelope to its stdout: it is kept for the "data"
\* listener until waitForResponse has settled and is dropped afterwards
HostWrites(e) ==
  /\ ~SmokeEnded /\ smoke.running
  /\ smoke.pc \in {"writeInit", "waitInit"} => Len(smoke.unread) < MaxUnread
  /\ smoke' = [smoke EXCEPT
                 !.unread = IF smoke.pc \in {"writeInit", "waitInit"}
                            THEN Append(@, e) ELSE @,
                 !.errorEmitted = @ \/ e = "error"]
  /\ UNCHANGED <<restartAttempts, cl, buf, wk, hostStarts, view, writer, reader,
               host, codec, aux>>

\* handleData of waitForResponse for one frame, and runSmokeTest after the
\* response: the payload check and the write of the shutdown request
HandleData ==
  /\ smoke.pc = "waitInit" /\ smoke.unread # <<>>
  /\ LET e == Head(smoke.unread)
         s == [smoke EXCEPT !.unread = Tail(@)]
     IN smoke' =
          CASE e \in {"garbage", "error", "initRefused"} -> SmokeFail(s)
            [] e = "initOk" ->
                 [s EXCEPT !.pc = "writeShutdown", !.deadline = -1,
                           !.initAt = s.now, !.unread = <<>>,
                           !.epipe = ~s.running]
            [] OTHER -> s
  /\ UNCHANGED <<restartAttempts, cl, buf, wk, hostStarts, view, writer, reader,
               host, codec, aux>>

\* the child exits: handleExit while waitForResponse waits, the child's
\* promise in the race
HandleExit(code) ==
  /\ ~SmokeEnded /\ smoke.running
  /\ LET s == [smoke EXCEPT !.running = FALSE, !.exitCode = code, !.exitAt = smoke.now]
     IN smoke' = CASE smoke.pc = "waitInit" -> SmokeFail(s)
                   [] smoke.pc = "waitExit" -> AfterExit(s)
                   [] OTHER -> s
  /\ UNCHANGED <<restartAttempts, cl, buf, wk, hostStarts, view, writer, reader,
               host, codec, aux>>

\* the timer of waitForResponse or of the race fires
TimerFires ==
  /\ smoke.deadline # -1 /\ smoke.now >= smoke.deadline
  /\ smoke' = SmokeFail(smoke)
  /\ UNCHANGED <<restartAttempts, cl, buf, wk, hostStarts, view, writer, reader,
               host, codec, aux>>

\* time passes while the test waits for an event: not beyond a timer that
\* is due, not while a frame waits for the listener
Tick ==
  /\ smoke.pc \in {"waitInit", "waitExit"}
  /\ smoke.now < smoke.deadline
  /\ smoke.pc = "waitInit" => smoke.unread = <<>>
  /\ smoke' = [smoke EXCEPT !.now = Min(smoke.now + TickMs, smoke.deadline)]
  /\ UNCHANGED <<restartAttempts, cl, buf, wk, hostStarts, view, writer, reader,
               host, codec, aux>>

InitSmoke ==
  /\ restartAttempts = 1
  /\ cl = Client0
  /\ buf = Buf0
  /\ wk = Worker0
  /\ hostStarts = 0
  /\ view = View0 /\ writer = Writer0 /\ reader = Reader0
  /\ host = Host0 /\ codec = Codec0
  /\ smoke = Smoke0
  /\ calc = Calc0 /\ pool = Pool0 /\ timed = Timed0 /\ pend = Pend0

NextSmoke ==
  \/ \E strict \in BOOLEAN : RunSmokeTest(strict)
  \/ \E error \in BOOLEAN : WriteCallback(error)
  \/ \E e \in SmokeEnvelopes : HostWrites(e)
  \/ HandleData
  \/ \E code \in ExitCodes : HandleExit(code)
  \/ TimerFires
  \/ Tick

SpecSmoke == InitSmoke /\ [][NextSmoke]_vars

\* ------------------------------------ options and range: index.ts to the host
\* A JavaScript value read as a number: kind "num" is a finite number given
\* in tenths, "nan" and "inf" are NaN and Infinity, "absent" is any value
\* whose typeof is not "number".
MaxTextLength == 2   \* characters of the text to format

Num(tenths) == [kind |-> "num", tenths |-> tenths]
NotNum(kind) == [kind |-> kind, tenths |-> 0]

PrintWidths == {NotNum("absent"), NotNum("inf"), Num(-100), Num(395), Num(409),
                Num(1207)}
TabWidths == {NotNum("absent"), NotNum("nan"), Num(-50), Num(0), Num(9), Num(29)}
UseTabsValues == {"true", "undefined", "text"}
EndOfLines == {"lf", "crlf", "cr"}
RangeStarts == {NotNum("absent"), NotNum("nan"), Num(-15), Num(0), Num(5),
                Num(10), Num(15), Num(25)}
RangeEnds == {NotNum("absent"), NotNum("inf"), Num(-5), Num(0), Num(10),
              Num(15), Num(20), Num(30)}

\* typeof v === "number" && Number.isFinite(v)
IsFiniteNumber(v) == v.kind = "num"

\* Math.trunc of a number given in tenths
Trunc(tenths) ==
  IF tenths >= 0 THEN tenths \div 10 ELSE 0 - ((0 - tenths) \div 10)

Max(a, b) == IF a > b THEN a ELSE b

\* Boolean(value)
ToBoolean(value) == value \in {"true", "text"}

NullRange == [null |-> TRUE, start |-> 0, end |-> 0]
Range(from, to) == [null |-> FALSE, start |-> from, end |-> to]

\* A variant of resolveFormattingOptions that does not raise small widths.
resolveFormattingOptions_unclamped(options) ==
  [ printWidth |-> IF IsFiniteNumber(options.printWidth)
                   THEN Trunc(options.printWidth.tenths) ELSE 80,
    tabWidth |-> IF IsFiniteNumber(options.tabWidth)
                 THEN Trunc(options.tabWidth.tenths) ELSE 4,
    useTabs |-> ToBoolean(options.useTabs),
    endOfLine |-> IF options.endOfLine = "crlf" THEN "crlf" ELSE "lf" ]

resolveFormattingOptions(options) ==
  [ printWidth |-> IF IsFiniteNumber(options.printWidth)
                   THEN Max(40, Trunc(options.printWidth.tenths)) ELSE 80,
    tabWidth |-> IF IsFiniteNumber(options.tabWidth)
                 THEN Max(1, Trunc(options.tabWidth.tenths)) ELSE 4,
    useTabs |-> ToBoolean(options.useTabs),
    endOfLine |-> IF options.endOfLine = "crlf" THEN "crlf" ELSE "lf" ]

\* A variant of resolveRange that does not clamp the end to the text.
resolveRange_unclamped(length, options) ==
  LET rawStart == IF IsFiniteNumber(options.rangeStart)
                  THEN Max(0, Trunc(options.rangeStart.tenths)) ELSE 0
      hasExplicitEnd == IsFiniteNumber(options.rangeEnd)
      rawEnd == IF hasExplicitEnd THEN Trunc(options.rangeEnd.tenths) ELSE length
  IN IF rawStart <= 0 /\ (~hasExplicitEnd \/ rawEnd >= length) THEN NullRange
     ELSE IF rawEnd <= rawStart THEN NullRange
     ELSE Range(rawStart, rawEnd)

\* resolveRange(text, options); length is text.length
resolveRange(length, options) ==
  LET rawStart == IF IsFiniteNumber(options.rangeStart)
                  THEN Max(0, Trunc(options.rangeStart.tenths)) ELSE 0
      hasExplicitEnd == IsFiniteNumber(options.rangeEnd)
      rawEnd == IF hasExplicitEnd THEN Trunc(options.rangeEnd.tenths) ELSE length
      clampedEnd == Min(length, Max(rawStart, rawEnd))
  IN IF rawStart <= 0 /\ (~hasExplicitEnd \/ clampedEnd >= length) THEN NullRange
     ELSE IF clampedEnd <= rawStart THEN NullRange
     ELSE Range(rawStart, clampedEnd)

\* normalizeFormattingOptions of the worker: its argument holds numbers
normalizeFormattingOptions(options) ==
  [ printWidth |-> Max(40, Trunc(10 * options.printWidth)),
    tabWidth |-> Max(1, Trunc(10 * options.tabWidth)),
    useTabs |-> options.useTabs,
    endOfLine |-> IF options.endOfLine = "crlf" THEN "crlf" ELSE "lf" ]

\* normalizeRange(range, sourceLength) of the worker
normalizeRange(range, sourceLength) ==
  IF range.null THEN NullRange
  ELSE LET from == Max(0, Trunc(10 * range.start))
           to == Min(sourceLength, Max(from, Trunc(10 * range.end)))
       IN IF to <= from \/ (from = 0 /\ to >= sourceLength) THEN NullRange
          ELSE Range(from, to)

\* A variant of HostRange that refuses a range reaching the last character.
HostRange_exclusive(range, contentLength) ==
  IF ~range.null /\ range.start >= 0 /\ range.end > range.start
     /\ range.end < contentLength
  THEN range ELSE NullRange

\* the TextSpan HandleFormat formats: null stands for the whole document
HostRange(range, contentLength) ==
  IF ~range.null /\ range.start >= 0 /\ range.end > range.start
     /\ range.end <= contentLength
  THEN range ELSE NullRange

\* Math.Clamp(value, min, max)
Clamp(value, min, max) == IF value < min THEN min ELSE IF value > max THEN max ELSE value

\* the options HandleFormat reads from the payload
HostOptions(options) ==
  [ printWidth |-> Clamp(options.printWidth, 40, 240),
    tabWidth |-> Clamp(options.tabWidth, 1, 16),
    useTabs |-> options.useTabs,
    endOfLine |-> options.endOfLine ]

\* printer.print: the options and the range handed to hostClient.format
PrinterPrint ==
  /\ calc.fn = "print" /\ calc.stage = "args"
  /\ calc' = [calc EXCEPT !.stage = "resolved",
                          !.formattingOptions = resolveFormattingOptions(calc.options),
                          !.range = resolveRange(calc.length, calc.options)]
  /\ UNCHANGED <<restartAttempts, cl, buf, wk, hostStarts, view, writer, reader,
               host, codec, smoke, pool, timed, pend>>

\* WorkerHostClient.format: the payload of the format request
WorkerPayload ==
  /\ calc.fn = "print" /\ calc.stage = "resolved"
  /\ calc' = [calc EXCEPT !.stage = "sent",
                          !.sentOptions = normalizeFormattingOptions(calc.formattingOptions),
                          !.sentRange = normalizeRange(calc.range, calc.length)]
  /\ UNCHANGED <<restartAttempts, cl, buf, wk, hostStarts, view, writer, reader,
               host, codec, smoke, pool, timed, pend>>

\* HandleFormat up to the call of the formatter
HostReadsPayload ==
  /\ calc.fn = "print" /\ calc.stage = "sent"
  /\ calc' = [calc EXCEPT !.stage = "read",
                          !.hostOptions = HostOptions(calc.sentOptions),
                          !.span = HostRange(calc.sentRange, calc.length)]
  /\ UNCHANGED <<restartAttempts, cl, buf, wk, hostStarts, view, writer, reader,
               host, codec, smoke, pool, timed, pend>>

NoOptions == [printWidth |-> 0, tabWidth |-> 0, useTabs |-> FALSE, endOfLine |-> ""]

InitPrint ==
  /\ restartAttempts = 1
  /\ cl = Client0
  /\ buf = Buf0
  /\ wk = Worker0
  /\ hostStarts = 0
  /\ view = View0 /\ writer = Writer0 /\ reader = Reader0
  /\ host = Host0 /\ codec = Codec0 /\ smoke = Smoke0
  /\ pool = Pool0 /\ timed = Timed0 /\ pend = Pend0
  /\ \E length \in 0..MaxTextLength, printWidth \in PrintWidths, tabWidth \in TabWidths,
        useTabs \in UseTabsValues, endOfLine \in EndOfLines,
        rangeStart \in RangeStarts, rangeEnd \in RangeEnds :
        calc = [ fn |-> "print", stage |-> "args", length |-> length,
                 options |-> [printWidth |-> printWidth, tabWidth |-> tabWidth,
                              useTabs |-> useTabs, endOfLine |-> endOfLine,
                              rangeStart |-> rangeStart, rangeEnd |-> rangeEnd],
                 formattingOptions |-> NoOptions, range |-> NullRange,
                 sentOptions |-> NoOptions, sentRange |-> NullRange,
                 hostOptions |-> NoOptions, span |-> NullRange ]

NextPrint ==
  \/ PrinterPrint
  \/ WorkerPayload
  \/ HostReadsPayload

SpecPrint == InitPrint /\ [][NextPrint]_vars

\* --------------------------------------- HostProcess: the pending table
\* One HostProcess with the closures request() creates.  made: request() ran
\* for the id; settled: the closure's flag; timer: the timeout is armed;
\* write: the state of the stdin.write callback; outcomes: the number of
\* times the request's promise was resolved or rejected.  last names the
\* last operation applied.

\* A variant of the closures that leaves the timer armed.
PendingSettle_keepsTimer(s, id, outcome) ==
  IF s.reqs[id].settled
  THEN s
  ELSE [s EXCEPT !.reqs[id].settled = TRUE,
                 !.pending = @ \ {id},
                 !.reqs[id].outcomes = @ + 1,
                 !.reqs[id].outcome = outcome]

\* pending.resolve and pending.reject, the closures of request()
PendingSettle(s, id, outcome) ==
  IF s.reqs[id].settled
  THEN s
  ELSE [s EXCEPT !.reqs[id].settled = TRUE,
                 !.reqs[id].timer = FALSE,
                 !.pending = @ \ {id},
                 !.reqs[id].outcomes = @ + 1,
                 !.reqs[id].outcome = outcome]

\* HostProcess.rejectAll: the keys are copied, then each entry still in the
\* table is rejected
RECURSIVE PendingRejectKeys(_, _)
PendingRejectKeys(s, keys) ==
  IF keys = {}
  THEN s
  ELSE LET id == First(keys)
       IN PendingRejectKeys(IF id \in s.pending
                            THEN PendingSettle(s, id, "rejected")
                            ELSE s,
                            keys \ {id})

PendingRejectAll(s) == PendingRejectKeys(s, s.pending)

\* HostProcess.start: the child's "spawn" event
TableStart ==
  /\ ~pend.child /\ pend.starts < MaxStarts
  /\ pend' = [pend EXCEPT !.child = TRUE, !.starts = @ + 1, !.last = "start"]
  /\ UNCHANGED <<restartAttempts, cl, buf, wk, hostStarts, view, writer, reader,
               host, codec, smoke, calc, pool, timed>>

\* HostProcess.request after its await of start()
TableRequest ==
  /\ pend.child
  /\ \E id \in 1..MaxRequests :
        /\ ~pend.reqs[id].made
        /\ \A other \in 1..(id - 1) : pend.reqs[other].made
        /\ pend' = [pend EXCEPT !.reqs[id] = [Req0 EXCEPT !.made = TRUE,
                                                          !.timer = TRUE,
                                                          !.write = "queued"],
                                !.pending = @ \cup {id},
                                !.last = "request"]
  /\ UNCHANGED <<restartAttempts, cl, buf, wk, hostStarts, view, writer, reader,
               host, codec, smoke, calc, pool, timed>>

\* HostProcess.handleEnvelope for a response carrying the request id
TableResponse ==
  /\ pend.child
  /\ \E id \in 1..MaxRequests :
        pend' = [(IF id \in pend.pending
                  THEN PendingSettle(pend, id, "resolved")
                  ELSE pend) EXCEPT !.last = "response"]
  /\ UNCHANGED <<restartAttempts, cl, buf, wk, hostStarts, view, writer, reader,
               host, codec, smoke, calc, pool, timed>>

\* the timeout of a request fires
TableTimer ==
  /\ \E id \in 1..MaxRequests :
        /\ pend.reqs[id].timer
        /\ pend' = [PendingSettle([pend EXCEPT !.reqs[id].timer = FALSE],
                                  id, "rejected")
                    EXCEPT !.last = "timer"]
  /\ UNCHANGED <<restartAttempts, cl, buf, wk, hostStarts, view, writer, reader,
               host, codec, smoke, calc, pool, timed>>

\* the callback of child.stdin.write
TableWriteCallback ==
  /\ \E id \in 1..MaxRequests, error \in BOOLEAN :
        /\ pend.reqs[id].write = "queued"
        /\ pend' = [(IF error
                     THEN PendingSettle([pend EXCEPT !.reqs[id].write = "done"],
                                        id, "rejected")
                     ELSE [pend EXCEPT !.reqs[id].write = "done"])
                    EXCEPT !.last = "write"]
  /\ UNCHANGED <<restartAttempts, cl, buf, wk, hostStarts, view, writer, reader,
               host, codec, smoke, calc, pool, timed>>

\* HostProcess.dispose
TableDispose ==
  /\ pend' = IF ~pend.child
             THEN [pend EXCEPT !.last = "dispose"]
             ELSE [PendingRejectAll(pend) EXCEPT !.child = FALSE, !.last = "dispose"]
  /\ UNCHANGED <<restartAttempts, cl, buf, wk, hostStarts, view, writer, reader,
               host, codec, smoke, calc, pool, timed>>

\* this.host?.rejectAll(error) of the fatal-notification handler
TableRejectAll ==
  /\ pend.child
  /\ pend' = [PendingRejectAll(pend) EXCEPT !.last = "rejectAll"]
  /\ UNCHANGED <<restartAttempts, cl, buf, wk, hostStarts, view, writer, reader,
               host, codec, smoke, calc, pool, timed>>

\* HostProcess.handleExitEvent
TableExit ==
  /\ pend.child
  /\ pend' = [PendingRejectAll(pend) EXCEPT !.pending = {}, !.child = FALSE,
                                            !.last = "exit"]
  /\ UNCHANGED <<restartAttempts, cl, buf, wk, hostStarts, view, writer, reader,
               host, codec, smoke, calc, pool, timed>>

InitTable ==
  /\ restartAttempts = 1
  /\ cl = Client0
  /\ buf = Buf0
  /\ wk = Worker0
  /\ hostStarts = 0
  /\ view = View0 /\ writer = Writer0 /\ reader = Reader0
  /\ host = Host0 /\ codec = Codec0 /\ smoke = Smoke0
  /\ calc = Calc0 /\ pool = Pool0 /\ timed = Timed0 /\ pend = Pend0

NextTable ==
  \/ TableStart
  \/ TableRequest
  \/ TableResponse
  \/ TableTimer
  \/ TableWriteCallback
  \/ TableDispose
  \/ TableRejectAll
  \/ TableExit

SpecTable == InitTable /\ [][NextTable]_vars

\* ------------------------------------------- HostClient: its Worker objects
\* worker is this.worker (0 is null); of each Worker object: st is "none"
\* (not created), "running" or "dead" (the thread has ended); errorPending
\* and exitPending are its "error" and "exit" events not yet delivered to
\* the main thread; disposed records that disposeWorker terminated it.
\* the listener of worker.once("exit") of worker w
PoolExitListener(p, w) == [p EXCEPT !.worker = 0]

\* HostClient.ensureWorker
PoolEnsureWorker(p) ==
  IF p.worker # 0
  THEN p
  ELSE LET w == p.created + 1
       IN [p EXCEPT !.created = w, !.worker = w,
                    !.ws[w] = [PoolWorker0 EXCEPT !.st = "running"]]

\* HostClient.disposeWorker: postMessage(shutdown), terminate(), worker = null
PoolDisposeWorker(p) ==
  IF p.worker = 0
  THEN p
  ELSE LET w == p.worker
       IN [p EXCEPT !.worker = 0,
                    !.ws[w].disposed = TRUE,
                    !.ws[w].exitPending = (p.ws[w].st = "running" \/ @),
                    !.ws[w].st = "dead",
                    !.disposedNewer = @ \/ (w = p.created /\ p.inEvent # 0 /\ p.inEvent # w)]

\* HostClient.format: the attempts of one call; outcomes[i] is what the
\* worker of attempt i does ("ok" needs a running worker).
RECURSIVE PoolAttempts(_, _, _)
PoolAttempts(p, outcomes, attempt) ==
  IF attempt >= restartAttempts
  THEN p
  ELSE LET p1 == PoolEnsureWorker(p)
       IN IF outcomes[attempt + 1] = "ok" /\ p1.ws[p1.worker].st = "running"
          THEN p1
          ELSE PoolAttempts(PoolDisposeWorker(p1), outcomes, attempt + 1)

PoolFormat ==
  /\ pool.calls < MaxPoolCalls
  /\ \E outcomes \in [1..restartAttempts -> {"ok", "failed"}] :
        pool' = [PoolAttempts(pool, outcomes, 0) EXCEPT !.calls = @ + 1]
  /\ UNCHANGED <<restartAttempts, cl, buf, wk, hostStarts, view, writer, reader,
               host, codec, smoke, calc, timed, pend>>

\* an uncaught exception ends the thread of worker w
PoolWorkerThrows(w) ==
  /\ pool.ws[w].st = "running"
  /\ pool' = [pool EXCEPT !.ws[w].st = "dead", !.ws[w].errorPending = TRUE,
                          !.ws[w].exitPending = TRUE]
  /\ UNCHANGED <<restartAttempts, cl, buf, wk, hostStarts, view, writer, reader,
               host, codec, smoke, calc, timed, pend>>

\* the "error" event of worker w reaches the main thread
PoolOnError(w) ==
  /\ pool.ws[w].errorPending
  /\ pool' = [PoolDisposeWorker([pool EXCEPT !.ws[w].errorPending = FALSE,
                                             !.inEvent = w])
              EXCEPT !.inEvent = 0]
  /\ UNCHANGED <<restartAttempts, cl, buf, wk, hostStarts, view, writer, reader,
               host, codec, smoke, calc, timed, pend>>

\* the "exit" event of worker w reaches the main thread
PoolOnExit(w) ==
  /\ pool.ws[w].exitPending /\ ~pool.ws[w].errorPending
  /\ pool' = [PoolExitListener([pool EXCEPT !.ws[w].exitPending = FALSE], w)
              EXCEPT !.clearedNewer = @ \/ (pool.worker # 0 /\ pool.worker # w)]
  /\ UNCHANGED <<restartAttempts, cl, buf, wk, hostStarts, view, writer, reader,
               host, codec, smoke, calc, timed, pend>>

InitPool ==
  /\ restartAttempts \in 1..MaxRestartAttempts
  /\ cl = Client0
  /\ buf = Buf0
  /\ wk = Worker0
  /\ hostStarts = 0
  /\ view = View0 /\ writer = Writer0 /\ reader = Reader0
  /\ host = Host0 /\ codec = Codec0 /\ smoke = Smoke0
  /\ calc = Calc0 /\ pool = Pool0 /\ timed = Timed0 /\ pend = Pend0

NextPool ==
  \/ PoolFormat
  \/ \E w \in 1..MaxWorkers : PoolWorkerThrows(w)
  \/ \E w \in 1..MaxWorkers : PoolOnError(w)
  \/ \E w \in 1..MaxWorkers : PoolOnExit(w)

SpecPool == InitPool /\ [][NextPool]_vars

\* ------------------------------------------ one format call, with the clock
\* now is the time in ms since the call began.  pc is where HostClient.format
\* stands ("idle", "waiting" in Atomics.wait, "returned", "threw"), attempt
\* its attempt counter, waitStart and waitUntil the bounds of the running
\* Atomics.wait, status the status word of the attempt's buffer.  mode is
\* what the host does: "hangsOnInitialize" answers nothing, "hangsOnFormat"
\* answers initialize only, "any" answers or not as it likes.  wpc is where
\* the worker of the attempt stands ("off", "posted", "init", "format",
\* "done", "gone"), wattempt its attempt counter, wtimer the deadline of its
\* pending request.  timedOut records that an Atomics.wait timed out.
handshakeTimeoutMs == 5000   \* DEFAULT_HANDSHAKE_TIMEOUT_MS
requestTimeoutMs == 8000     \* DEFAULT_REQUEST_TIMEOUT_MS
Second == 1000               \* the 1_000 of overallTimeout; the clock's step
NoTimer == -1                \* no deadline

HostModes == {"hangsOnInitialize", "hangsOnFormat", "any"}

\* A variant of WaitDeadline for an Atomics.wait without a timeout.
WaitDeadline_unbounded(now) == NoTimer

\* now + overallTimeout of sendFormatRequest
WaitDeadline(now) == now + requestTimeoutMs + handshakeTimeoutMs + Second

Due(now, deadline) == deadline # NoTimer /\ now >= deadline
CanPass(now, deadline) == deadline = NoTimer \/ now + Second <= deadline

\* the longest a call can take: restartAttempts waits of overallTimeout
MaxClock == MaxRestartAttempts * (requestTimeoutMs + handshakeTimeoutMs + Second)

\* sendFormatRequest up to its Atomics.wait: a new buffer, the message posted
\* to the worker ensureWorker returns
TimedSend(t) ==
  [t EXCEPT !.pc = "waiting", !.status = 0,
            !.waitStart = t.now, !.waitUntil = WaitDeadline(t.now),
            !.wpc = "posted", !.wattempt = 0, !.wtimer = NoTimer]

\* the catch block of HostClient.format, the next attempt or handleFailure
TimedCatch(t, strict) ==
  LET t1 == [t EXCEPT !.attempt = @ + 1, !.wpc = "off", !.wtimer = NoTimer,
                      !.waitUntil = NoTimer]
  IN IF t1.attempt < restartAttempts
     THEN TimedSend(t1)
     ELSE [t1 EXCEPT !.pc = IF strict THEN "threw" ELSE "returned"]

\* the catch block of WorkerHostClient.format: invalidateHost, then the next
\* attempt (ensureHost writes initialize) or the error response
TimedWorkerCatch(t) ==
  IF t.wattempt + 1 < restartAttempts
  THEN [t EXCEPT !.wattempt = @ + 1, !.wpc = "init",
                 !.wtimer = t.now + handshakeTimeoutMs]
  ELSE [t EXCEPT !.wattempt = @ + 1, !.wpc = "done", !.wtimer = NoTimer,
                 !.status = 2]

\* HostClient.format is called
TimedFormat ==
  /\ timed.pc = "idle"
  /\ \E mode \in HostModes :
        timed' = TimedSend([timed EXCEPT !.mode = mode])
  /\ UNCHANGED <<restartAttempts, cl, buf, wk, hostStarts, view, writer, reader,
               host, codec, smoke, calc, pool, pend>>

\* the worker's handleMessage: ensureHost spawns the host and writes initialize
TimedWorkerStart ==
  /\ timed.wpc = "posted"
  /\ timed' = [timed EXCEPT !.wpc = "init", !.wtimer = timed.now + handshakeTimeoutMs]
  /\ UNCHANGED <<restartAttempts, cl, buf, wk, hostStarts, view, writer, reader,
               host, codec, smoke, calc, pool, pend>>

\* the host answers the pending request: after initialize the worker writes
\* format; a format response is ok (status 1) or fails the worker's attempt
TimedHostAnswers ==
  /\ \/ timed.wpc = "init" /\ timed.mode # "hangsOnInitialize"
     \/ timed.wpc = "format" /\ timed.mode = "any"
  /\ \E ok \in BOOLEAN :
        timed' = IF timed.wpc = "init"
                 THEN IF ok
                      THEN [timed EXCEPT !.wpc = "format",
                                         !.wtimer = timed.now + requestTimeoutMs]
                      ELSE TimedWorkerCatch(timed)
                 ELSE IF ok
                      THEN [timed EXCEPT !.wpc = "done", !.wtimer = NoTimer,
                                         !.status = 1]
                      ELSE TimedWorkerCatch(timed)
  /\ UNCHANGED <<restartAttempts, cl, buf, wk, hostStarts, view, writer, reader,
               host, codec, smoke, calc, pool, pend>>

\* the timer of the worker's pending request fires
TimedWorkerTimer ==
  /\ timed.wpc \in {"init", "format"}
  /\ Due(timed.now, timed.wtimer)
  /\ timed' = TimedWorkerCatch(timed)
  /\ UNCHANGED <<restartAttempts, cl, buf, wk, hostStarts, view, writer, reader,
               host, codec, smoke, calc, pool, pend>>

\* the worker thread ends without writing a response
TimedWorkerCrash ==
  /\ timed.mode = "any"
  /\ timed.wpc \in {"posted", "init", "format"}
  /\ timed' = [timed EXCEPT !.wpc = "gone", !.wtimer = NoTimer]
  /\ UNCHANGED <<restartAttempts, cl, buf, wk, hostStarts, view, writer, reader,
               host, codec, smoke, calc, pool, pend>>

\* Atomics.wait returns "ok": the status word was written
TimedWake ==
  /\ timed.pc = "waiting" /\ timed.status # 0
  /\ \E strict \in BOOLEAN :
        timed' = IF timed.status = 1
                 THEN [timed EXCEPT !.pc = "returned", !.waitUntil = NoTimer]
                 ELSE TimedCatch([timed EXCEPT !.failed = @ + 1], strict)
  /\ UNCHANGED <<restartAttempts, cl, buf, wk, hostStarts, view, writer, reader,
               host, codec, smoke, calc, pool, pend>>

\* Atomics.wait returns "timed-out"
TimedTimeout ==
  /\ timed.pc = "waiting" /\ timed.status = 0
  /\ Due(timed.now, timed.waitUntil)
  /\ \E strict \in BOOLEAN :
        timed' = TimedCatch([timed EXCEPT !.timedOut = TRUE], strict)
  /\ UNCHANGED <<restartAttempts, cl, buf, wk, hostStarts, view, writer, reader,
               host, codec, smoke, calc, pool, pend>>

\* the clock: a second passes while the main thread waits, unless a timer is
\* due, the worker has a step to take or the waiter has been notified; a
\* host that hangs on format answers initialize at once
TimedTick ==
  /\ timed.pc = "waiting" /\ timed.status = 0
  /\ timed.wpc # "posted"
  /\ ~(timed.mode = "hangsOnFormat" /\ timed.wpc = "init")
  /\ timed.now < MaxClock
  /\ CanPass(timed.now, timed.waitUntil)
  /\ CanPass(timed.now, timed.wtimer)
  /\ timed' = [timed EXCEPT !.now = @ + Second]
  /\ UNCHANGED <<restartAttempts, cl, buf, wk, hostStarts, view, writer, reader,
               host, codec, smoke, calc, pool, pend>>

InitTimed ==
  /\ restartAttempts \in 1..MaxRestartAttempts
  /\ cl = Client0
  /\ buf = Buf0
  /\ wk = Worker0
  /\ hostStarts = 0
  /\ view = View0 /\ writer = Writer0 /\ reader = Reader0
  /\ host = Host0 /\ codec = Codec0 /\ smoke = Smoke0
  /\ calc = Calc0 /\ pool = Pool0 /\ timed = Timed0 /\ pend = Pend0

NextTimed ==
  \/ TimedFormat
  \/ TimedWorkerStart
  \/ TimedHostAnswers
  \/ TimedWorkerTimer
  \/ TimedWorkerCrash
  \/ TimedWake
  \/ TimedTimeout
  \/ TimedTick

SpecTimed == InitTimed /\ [][NextTimed]_vars

\* The main thread runs and the clock advances.
SpecTimedLive == SpecTimed /\ WF_vars(NextTimed)

\* ------------------------------------ the host: diagnostics and line endings
\* A text is a sequence of characters; "r" and "n" stand for carriage return
\* and line feed.
MaxContent == 8   \* characters of a request's content
MaxOutput == 4    \* characters of a formatter's output

ContentChars == {"T", "O", "D", "x"}
Contents == UNION {[1..n -> ContentChars] : n \in 0..MaxContent}
OutputChars == {"a", "r", "n"}
Outputs == UNION {[1..n -> OutputChars] : n \in 0..MaxOutput}

\* text.Substring(at) starts with value; at counts from 0
StartsWithAt(text, at, value) ==
  /\ at + Len(value) <= Len(text)
  /\ \A k \in 1..Len(value) : text[at + k] = value[k]

\* text.EndsWith(value, StringComparison.Ordinal)
EndsWith(text, value) ==
  Len(value) <= Len(text) /\ StartsWithAt(text, Len(text) - Len(value), value)

\* text.IndexOf(value, StringComparison.Ordinal): -1 when there is none
IndexOf(text, value) ==
  LET found == {i \in 0..Len(text) : StartsWithAt(text, i, value)}
  IN IF found = {} THEN -1 ELSE First(found)

\* text.Replace(old, new, StringComparison.Ordinal), from the left
RECURSIVE Replace(_, _, _)
Replace(text, old, new) ==
  IF text = <<>> THEN <<>>
  ELSE IF StartsWithAt(text, 0, old)
  THEN new \o Replace(SubSeq(text, Len(old) + 1, Len(text)), old, new)
  ELSE <<Head(text)>> \o Replace(Tail(text), old, new)

Todo == <<"T", "O", "D", "O">>

\* the diagnostics FormatWithRoslyn adds by inspecting the content
TodoDiagnostics(content) ==
  LET todoIndex == IndexOf(content, Todo)
  IN IF todoIndex >= 0
     THEN << [severity |-> "warning", message |-> "TODO comment detected.",
              start |-> todoIndex, end |-> todoIndex + 4] >>
     ELSE <<>>

\* EnsureTrailingNewline(text, endOfLine) of the Roslyn host
EnsureTrailingNewline(text, endOfLine) ==
  IF text = <<>> THEN endOfLine
  ELSE IF EndsWith(text, endOfLine) THEN text
  ELSE IF endOfLine = <<"r", "n">>
  THEN IF EndsWith(text, <<"r">>) THEN text \o <<"n">> ELSE text \o endOfLine
  ELSE IF EndsWith(text, <<"n">>) THEN text
  ELSE IF EndsWith(text, <<"r">>) THEN text \o <<"n">>
  ELSE text \o <<"n">>

\* NormalizeLineEndings(text, endOfLine) of the stub host
NormalizeLineEndings(text, endOfLine) ==
  LET normalized == Replace(Replace(text, <<"r", "n">>, <<"n">>), <<"r">>, <<"n">>)
  IN IF endOfLine = "crlf"
     THEN Replace(normalized, <<"n">>, <<"r", "n">>)
     ELSE normalized

\* EnsureTrailingNewline(text) of the stub host
StubEnsureTrailingNewline(text) ==
  IF text = <<>> THEN <<"n">>
  ELSE IF EndsWith(text, <<"n">>) THEN text
  ELSE IF EndsWith(text, <<"r">>) THEN text \o <<"n">>
  ELSE text \o <<"n">>

\* FormatWithRoslyn after the formatter ran: the TODO diagnostic
RoslynDiagnostics ==
  /\ calc.fn = "todo" /\ ~calc.done
  /\ calc' = [calc EXCEPT !.done = TRUE,
                          !.diagnostics = TodoDiagnostics(calc.content)]
  /\ UNCHANGED <<restartAttempts, cl, buf, wk, hostStarts, view, writer, reader,
               host, codec, smoke, pool, timed, pend>>

InitTodo ==
  /\ restartAttempts = 1
  /\ cl = Client0
  /\ buf = Buf0
  /\ wk = Worker0
  /\ hostStarts = 0
  /\ view = View0 /\ writer = Writer0 /\ reader = Reader0
  /\ host = Host0 /\ codec = Codec0 /\ smoke = Smoke0
  /\ pool = Pool0 /\ timed = Timed0 /\ pend = Pend0
  /\ \E content \in Contents :
        calc = [fn |-> "todo", done |-> FALSE, content |-> content,
                diagnostics |-> <<>>]

NextTodo == RoslynDiagnostics

SpecTodo == InitTodo /\ [][NextTodo]_vars

\* FormatWithRoslyn after the formatter ran: the text returned
RoslynNewline ==
  /\ calc.fn = "newline" /\ ~calc.done /\ calc.hostKind = "roslyn"
  /\ calc' = [calc EXCEPT !.done = TRUE,
                          !.formatted =
                             EnsureTrailingNewline(calc.output,
                                IF calc.endOfLine = "crlf" THEN <<"r", "n">>
                                                           ELSE <<"n">>)]
  /\ UNCHANGED <<restartAttempts, cl, buf, wk, hostStarts, view, writer, reader,
               host, codec, smoke, pool, timed, pend>>

\* HandleFormat of the stub host
StubNewline ==
  /\ calc.fn = "newline" /\ ~calc.done /\ calc.hostKind = "stub"
  /\ calc' = [calc EXCEPT !.done = TRUE,
                          !.formatted =
                             StubEnsureTrailingNewline(
                                NormalizeLineEndings(calc.output, calc.endOfLine))]
  /\ UNCHANGED <<restartAttempts, cl, buf, wk, hostStarts, view, writer, reader,
               host, codec, smoke, pool, timed, pend>>

InitNewline ==
  /\ restartAttempts = 1
  /\ cl = Client0
  /\ buf = Buf0
  /\ wk = Worker0
  /\ hostStarts = 0
  /\ view = View0 /\ writer = Writer0 /\ reader = Reader0
  /\ host = Host0 /\ codec = Codec0 /\ smoke = Smoke0
  /\ pool = Pool0 /\ timed = Timed0 /\ pend = Pend0
  /\ \E output \in Outputs, endOfLine \in {"lf", "crlf"}, hostKind \in {"roslyn", "stub"} :
        calc = [fn |-> "newline", done |-> FALSE, output |-> output,
                endOfLine |-> endOfLine, hostKind |-> hostKind, formatted |-> <<>>]

NextNewline ==
  \/ RoslynNewline
  \/ StubNewline

SpecNewline == InitNewline /\ [][NextNewline]_vars

\* ---------------------------------------------------------- specification
\* ------------------------------------------ the host process (Program.cs)
MaxSegments == 3     \* pieces the host's standard input is put together from

DefaultMemoryBudgetMb == 512
WorkingSetsMb == {460, 461, 512, 513}   \* values of GetWorkingSetUsageMb()

\* Standard input, unit by unit.  A header unit is one line with its line
\* terminator: "cl" is a Content-Length header whose value is the length of
\* the unit that follows the header block, "clBad" one whose value is not a
\* non-negative integer, "hdr" another header, "text" a line with no colon
\* after its first character, "blank" the empty line.  A body unit is one
\* JSON text without a line terminator: a request of the command it is named
\* after, "unknown" a request of a command the host does not know, "throws" a
\* request whose requestId is not a string, "notjson" bytes that do not parse,
\* "badtype" a ping message whose type is not "request", "nocommand" a request
\* without a command, "nocommandNoId" one without command and requestId.
HeaderTokens == {"cl", "clBad", "hdr", "text", "blank"}
BodyTokens == {"initialize", "format", "shutdown", "unknown", "notjson", "throws",
               "badtype", "nocommand", "nocommandNoId"}
Tokens == HeaderTokens \cup BodyTokens

\* What is written to standard input before it is closed: whole frames, and
\* pieces that are cut short, lack a header or lack a body.
Frame(body) == <<"cl", "blank", body>>
Segments ==
  {Frame(body) : body \in BodyTokens}
  \cup {<<"clBad", "blank">>, <<"hdr", "blank">>, <<"blank">>, <<"text">>,
        <<"cl">>, <<"cl", "blank">>, <<"hdr">>, <<"format">>, <<"notjson">>}

RECURSIVE InputsOf(_)
InputsOf(n) ==
  IF n = 0 THEN {<<>>}
  ELSE LET shorter == InputsOf(n - 1)
       IN shorter \cup {p \o s : p \in shorter, s \in Segments}

Inputs == InputsOf(MaxSegments)

WriteMessage(h, message) == [h EXCEPT !.stdout = Append(@, message)]

SendResponse(h, requestId, command) ==
  WriteMessage(h, [type |-> "response", command |-> command, requestId |-> requestId,
                   ok |-> TRUE, errorCode |-> "", severity |-> ""])

SendErrorResponse(h, requestId, command, errorCode) ==
  WriteMessage(h, [type |-> "response", command |-> command, requestId |-> requestId,
                   ok |-> FALSE, errorCode |-> errorCode, severity |-> ""])

SendErrorNotification(h, severity, errorCode) ==
  WriteMessage(h, [type |-> "notification", command |-> "error", requestId |-> 0,
                   ok |-> FALSE, errorCode |-> errorCode, severity |-> severity])

SendLogNotification(h) ==
  WriteMessage(h, [type |-> "notification", command |-> "log", requestId |-> 0,
                   ok |-> FALSE, errorCode |-> "", severity |-> ""])

\* the process ends: the main loop is left (code 0) or Environment.Exit
Terminate(h, code) == [h EXCEPT !.pc = "exited", !.exitCode = code]

\* the last unit of the line that starts with the body unit at p: a body has
\* no line terminator, so the line runs on to the end of the next header unit
RECURSIVE LineEnd(_, _)
LineEnd(in, p) ==
  IF p > Len(in) THEN Len(in)
  ELSE IF in[p] \in BodyTokens THEN LineEnd(in, p + 1)
  ELSE p

\* ReadLine: the next line and the position after it; "null" at the end of
\* the stream
ReadLine(in, pos) ==
  IF pos >= Len(in)
  THEN [line |-> "null", pos |-> pos]
  ELSE IF in[pos + 1] \in HeaderTokens
  THEN [line |-> in[pos + 1], pos |-> pos + 1]
  ELSE LET e == LineEnd(in, pos + 1)
       IN [line |-> IF \E i \in (pos + 1)..e : in[i] \notin {"text", "blank", "notjson"}
                    THEN "hdr" ELSE "text",
           pos |-> e]

\* ReadHeaders: any is headers.Count > 0, contentLength is what headers["Content-Length"]
\* holds: "missing", "ok" or "bad".  The result is "null" or that value.
RECURSIVE ReadHeaders(_, _, _, _)
ReadHeaders(in, pos, any, contentLength) ==
  LET l == ReadLine(in, pos)
  IN IF l.line = "null"
     THEN [headers |-> IF any THEN contentLength ELSE "null", pos |-> l.pos, eof |-> TRUE]
     ELSE IF l.line = "blank"
     THEN [headers |-> contentLength, pos |-> l.pos, eof |-> FALSE]
     ELSE IF l.line = "text"
     THEN ReadHeaders(in, l.pos, any, contentLength)
     ELSE ReadHeaders(in, l.pos, TRUE,
                      IF l.line = "cl" THEN "ok"
                      ELSE IF l.line = "clBad" THEN "bad" ELSE contentLength)

\* ReadBody for the length a "cl" header declares: one unit
ReadBody(in, pos) ==
  IF pos >= Len(in)
  THEN [eof |-> TRUE, pos |-> pos]
  ELSE [eof |-> FALSE, pos |-> pos + 1]

\* A variant of OnEndOfStream that ends the process as a crash.
OnEndOfStream_crashes(h) == Terminate(h, 1)

\* catch (EndOfStreamException) { break; }
OnEndOfStream(h) == Terminate(h, 0)

HandleInitialize(h, requestId) ==
  SendLogNotification(SendResponse(h, requestId, "initialize"))

\* A variant of StillOverBudget that compares with the whole budget.
StillOverBudget_whole(postCollectWorkingSet, memoryBudgetMb) ==
  postCollectWorkingSet > memoryBudgetMb

\* postCollectWorkingSet > memoryBudgetMb * 0.9
StillOverBudget(postCollectWorkingSet, memoryBudgetMb) ==
  postCollectWorkingSet * 10 > memoryBudgetMb * 9

\* DIXIE_HOST_MEMORY_BUDGET_MB is not set
GetMemoryBudgetMb == DefaultMemoryBudgetMb

\* HandleFormat from the memory guard on; workingSetAfterMb and
\* postCollectWorkingSet are what GetWorkingSetUsageMb() returns
HandleFormat(h, requestId, workingSetAfterMb, postCollectWorkingSet) ==
  IF workingSetAfterMb > GetMemoryBudgetMb
  THEN LET h1 == SendErrorResponse(h, requestId, "format", "MEMORY_BUDGET_EXCEEDED")
           h2 == SendErrorNotification(h1, "fatal", "MEMORY_BUDGET_EXCEEDED")
           h3 == [h2 EXCEPT !.post = postCollectWorkingSet]
       IN IF StillOverBudget(postCollectWorkingSet, GetMemoryBudgetMb)
          THEN Terminate(h3, 86)
          ELSE h3
  ELSE SendLogNotification(SendResponse(h, requestId, "format"))

\* A variant of HandleShutdown that answers without the request's id.
HandleShutdown_noId(h, requestId) == SendResponse(h, 0, "shutdown")

HandleShutdown(h, requestId) == SendResponse(h, requestId, "shutdown")

\* A variant of SendInvalidMessage that drops the request's command.
SendInvalidMessage_unknownCommand(h, requestId, command) ==
  SendErrorResponse(h, requestId, "unknown", "INVALID_MESSAGE")

\* the two INVALID_MESSAGE branches of the main loop: command is the
\* request's, or "unknown" when it has none
SendInvalidMessage(h, requestId, command) ==
  SendErrorResponse(h, requestId, command, "INVALID_MESSAGE")

\* A variant of HandleUnknown that leaves the request unanswered.
HandleUnknown_silent(h, requestId) == h

\* default: of the command switch
HandleUnknown(h, requestId) ==
  SendErrorResponse(h, requestId, "unknown", "UNKNOWN_COMMAND")

\* The body of the main loop from JsonDocument.Parse on, for the body at
\* position id; the result is the host at the top of the loop or ended.
Dispatch(h, id, workingSetAfterMb, postCollectWorkingSet) ==
  LET body == h.stdin[id]
      done == CASE body \in HeaderTokens \cup {"notjson"} ->
                     SendErrorResponse(h, 0, "unknown", "INVALID_JSON")
                [] body = "throws" ->
                     Terminate(SendErrorNotification(h, "fatal", "INTERNAL_ERROR"), 0)
                [] body = "initialize" -> HandleInitialize(h, id)
                [] body = "format" ->
                     HandleFormat(h, id, workingSetAfterMb, postCollectWorkingSet)
                [] body = "shutdown" -> Terminate(HandleShutdown(h, id), 0)
                [] body = "badtype" -> SendInvalidMessage(h, id, "ping")
                [] body = "nocommand" -> SendInvalidMessage(h, id, "unknown")
                [] body = "nocommandNoId" -> SendInvalidMessage(h, 0, "unknown")
                [] OTHER -> HandleUnknown(h, id)
  IN IF done.pc = "exited" THEN done ELSE [done EXCEPT !.pc = "readHeaders"]

\* the top of the main loop: ReadHeaders and the Content-Length check;
\* ioError is whether reading from the stream throws
MainReadHeaders(ioError) ==
  /\ host.pc = "readHeaders"
  /\ host' = IF ioError
             THEN Terminate(SendErrorNotification([host EXCEPT !.post = 0],
                                                  "fatal", "INVALID_HEADERS"), 0)
             ELSE LET r == ReadHeaders(host.stdin, host.pos, FALSE, "missing")
                      h == [host EXCEPT !.pos = r.pos, !.eof = @ \/ r.eof, !.post = 0]
                  IN IF r.headers = "null" THEN Terminate(h, 0)
                     ELSE IF r.headers # "ok"
                     THEN SendErrorResponse(h, 0, "unknown", "INVALID_HEADERS")
                     ELSE [h EXCEPT !.pc = "readBody"]
  /\ UNCHANGED <<restartAttempts, cl, buf, wk, hostStarts, view, writer, reader,
               codec, smoke, aux>>

\* ReadBody in the main loop
MainReadBody(ioError) ==
  /\ host.pc = "readBody"
  /\ host' = IF ioError
             THEN Terminate(SendErrorNotification(host, "fatal", "READ_FAILED"), 0)
             ELSE LET r == ReadBody(host.stdin, host.pos)
                  IN IF r.eof
                     THEN OnEndOfStream([host EXCEPT !.eof = TRUE])
                     ELSE [host EXCEPT !.pos = r.pos, !.read = Append(@, r.pos),
                                       !.pc = "dispatch"]
  /\ UNCHANGED <<restartAttempts, cl, buf, wk, hostStarts, view, writer, reader,
               codec, smoke, aux>>

\* the frame is parsed and handled
MainDispatch ==
  /\ host.pc = "dispatch"
  /\ \E workingSetAfterMb \in WorkingSetsMb, postCollectWorkingSet \in WorkingSetsMb :
        host' = Dispatch(host, host.read[Len(host.read)], workingSetAfterMb,
                         postCollectWorkingSet)
  /\ UNCHANGED <<restartAttempts, cl, buf, wk, hostStarts, view, writer, reader,
               codec, smoke, aux>>

InitHost ==
  /\ restartAttempts = 1
  /\ cl = Client0
  /\ buf = Buf0
  /\ wk = Worker0
  /\ hostStarts = 0
  /\ view = View0 /\ writer = Writer0 /\ reader = Reader0
  /\ \E in \in Inputs : host = [Host0 EXCEPT !.stdin = in]
  /\ codec = Codec0 /\ smoke = Smoke0
  /\ calc = Calc0 /\ pool = Pool0 /\ timed = Timed0 /\ pend = Pend0

NextHost ==
  \/ \E ioError \in BOOLEAN : MainReadHeaders(ioError)
  \/ \E ioError \in BOOLEAN : MainReadBody(ioError)
  \/ MainDispatch

SpecHost == InitHost /\ [][NextHost]_vars

\* The host is a running process: it takes its next step.
SpecHostLive == SpecHost /\ WF_vars(NextHost)

Init ==
  /\ restartAttempts \in 1..MaxRestartAttempts
  /\ cl = Client0
  /\ buf = Buf0
  /\ wk = Worker0
  /\ hostStarts = 0
  /\ view = View0 /\ writer = Writer0 /\ reader = Reader0
  /\ host = Host0
  /\ codec = Codec0 /\ smoke = Smoke0
  /\ calc = Calc0 /\ pool = Pool0 /\ timed = Timed0 /\ pend = Pend0

Next ==
  \/ \E src \in Sources : Format(src)
  \/ \E startOk \in BOOLEAN : Send(startOk)
  \/ \E strict \in BOOLEAN : handleFailure(strict)
  \/ Wake
  \/ Timeout
  \/ OnMessage
  \/ \E c \in 1..MaxChildren : OnSpawn(c)
  \/ \E c \in 1..MaxChildren : OnSpawnError(c)
  \/ \E h \in 1..(MaxChildren + 1), c \in 1..MaxChildren : OnChunk(h, c)
  \/ \E c \in 1..MaxChildren : OnExit(c)
  \/ \E h \in 1..(MaxChildren + 1) : OnTimer(h)
  \/ \E h \in 1..(MaxChildren + 1) : OnWriteError(h)
  \/ WorkerTerminated

Spec == Init /\ [][Next]_vars

\* -------------------------------------------------------------- properties
AllFailed == cl.pc = "idle" /\ cl.calls > 0 /\ cl.attempt >= restartAttempts

\* C1: with strict mode off, a format call whose restartAttempts attempts
\* all failed (worker error, caller timeout or worker start failure) returns
\* exactly the source it was given and does not throw.
C1_FallbackReturnsSource ==
  (AllFailed /\ ~cl.strict) => cl.ret = [kind |-> "returned", val |-> cl.source]

C1_Witness ==
  /\ AllFailed /\ ~cl.strict /\ cl.ret = [kind |-> "returned", val |-> cl.source]
  /\ cl.errs = <<"Unable to locate host", "Host request timed out">>

\* C2: with strict mode on, a format call whose attempts all failed throws
\* the error of its last failed attempt and does not return the source.
C2_StrictThrowsLastError ==
  (AllFailed /\ cl.strict) =>
     cl.ret = [kind |-> "threw", val |-> cl.errs[Len(cl.errs)]]

C2_Witness ==
  /\ AllFailed /\ cl.strict /\ Len(cl.errs) = 2 /\ cl.errs[1] # cl.errs[2]
  /\ cl.ret = [kind |-> "threw", val |-> ExitError]

\* C3: one format call makes at most restartAttempts attempts, returns the
\* text of the first attempt that succeeds without attempting again, and has
\* called disposeWorker once per failed attempt.
C3_AttemptsAndDisposes ==
  /\ cl.sendCalls <= restartAttempts
  /\ cl.disposeCalls = cl.attempt
  /\ cl.pc = "wait" => cl.sendCalls = cl.attempt + 1
  /\ cl.pc = "send" => cl.sendCalls = cl.attempt
  /\ (cl.pc = "idle" /\ cl.calls > 0) =>
        IF cl.attempt >= restartAttempts
        THEN cl.sendCalls = restartAttempts
        ELSE /\ cl.sendCalls = cl.attempt + 1
             /\ buf.status = 1
             /\ cl.ret = [kind |-> "returned", val |-> buf.val]

C3_Witness ==
  /\ cl.pc = "idle" /\ cl.calls = 1
  /\ cl.ret = [kind |-> "returned", val |-> Formatted]
  /\ cl.sendCalls = 2 /\ cl.disposeCalls = 1

\* C4: during one format call the host child process is started at most
\* restartAttempts (HOST_RETRIES) times in total, the client's and the worker's
\* retries counted together.
C4_HostStartsBounded == hostStarts <= restartAttempts

\* C5: on every child the worker spawns, initialize is sent at most once and
\* no format request is written before that child's initialize response with
\* ok:true was received.
C5_InitializeBeforeFormat ==
  \A c \in 1..MaxChildren :
     /\ wk.kids[c].initSent <= 1
     /\ wk.kids[c].fmtSent > 0 => wk.kids[c].initOk

\* C6: at the end of the turn in which a request timed out, the child that
\* was processing it has been disposed (stdin ended and killed).
C6_TimeoutDisposesChild ==
  \A c \in 1..MaxChildren : wk.kids[c].timedOut => wk.kids[c].killed

\* C7: at the end of the turn in which a fatal error notification of a child
\* was handled, that child is disposed and detached and no request written to
\* it is pending.
C7_FatalDisposesChild ==
  \A c \in 1..MaxChildren :
     wk.kids[c].fatal =>
        /\ wk.kids[c].killed
        /\ \A h \in 1..(MaxChildren + 1) : wk.hp[h].child # c

\* C8: when the exit of a child is observed, every request pending on its
\* HostProcess is rejected with the error that names code and signal, the
\* table is left empty and the listeners are removed, so that no HostProcess
\* listens to a child that has exited and no entry outlives its child.
C8_ExitWins ==
  \A h \in 1..(MaxChildren + 1) :
     /\ wk.hp[h].pending # {} => wk.hp[h].child # 0
     /\ wk.hp[h].child # 0 =>
          LET s == handleExitEvent(wk, h)
          IN /\ wk.kids[wk.hp[h].child].st = "running"
             /\ s.hp[h] = HostProcess0
             /\ wk.fReq \in {p.id : p \in wk.hp[h].pending} =>
                   s.fpc = "catch" /\ s.fErr = ExitError

C8_Witness ==
  /\ wk.fpc = "wSpawn" /\ wk.fLastError = ExitError /\ wk.fattempt = 1
  /\ \A h \in 1..(MaxChildren + 1) : wk.hp[h].pending = {}

\* C9: a response resolves the pending request whose id it carries and no
\* other; a response without requestId, or with one that is not in the table,
\* and every other envelope that is not a fatal notification, leaves the
\* table and the waiting call as they are.
C9_OnlyMatchingResponseResolves ==
  \A h \in 1..(MaxChildren + 1) :
     wk.hp[h].child # 0 =>
        \A f \in Frames(h) :
           LET s == handleEnvelope(wk, h, f)
               ids == {p.id : p \in wk.hp[h].pending}
           IN /\ (f.t = "response" /\ f.rid \in ids) =>
                   /\ s.hp[h].pending = {p \in wk.hp[h].pending : p.id # f.rid}
                   /\ \A g \in 1..(MaxChildren + 1) : g # h => s.hp[g] = wk.hp[g]
                   /\ wk.fReq = f.rid => s.fpc \in {"initDone", "fmtDone"} /\ s.fRes = f
                   /\ wk.fReq # f.rid => s.fpc = wk.fpc
              /\ (f.t = "response" /\ f.rid \notin ids) => s = wk
              /\ ~(f.t = "response" /\ f.rid = wk.fReq) =>
                   s.fpc \notin {"initDone", "fmtDone"}

C9_Witness ==
  /\ wk.fpc = "wFmt"
  /\ \E h \in 1..(MaxChildren + 1) :
        /\ wk.hp[h].child # 0
        /\ wk.fReq \in {p.id : p \in wk.hp[h].pending}
        /\ \E f \in Frames(h) : f.rid = StaleId /\ handleEnvelope(wk, h, f) = wk
        /\ \E f \in Frames(h) : f.rid = wk.fReq /\ handleEnvelope(wk, h, f).fpc = "fmtDone"

\* C10: a caller that has observed status 1 or 2 loads the final length and
\* decodes exactly the bytes of the response the worker published; it throws
\* only when its wait timed out.
C10_ReaderSeesWholeResponse ==
  LET o == Outcome(writer.statusCode, writer.encoded)
  IN /\ reader.pc \in {"loadStatus", "loadLength", "decode", "done"} =>
          view.status = o.status /\ view.length = Len(o.bytes)
     /\ reader.pc \in {"loadLength", "decode", "done"} => reader.finalStatus = o.status
     /\ reader.pc \in {"decode", "done"} =>
          /\ reader.length = Len(o.bytes)
          /\ reader.decoded = SubSeq(o.bytes, 1, reader.i)
     /\ reader.pc = "done" => reader.decoded = o.bytes
     /\ reader.pc = "threw" => reader.finalStatus = 0 /\ reader.length = 0

C10_Witness ==
  /\ reader.pc = "done" /\ reader.decoded = <<1, 2>> /\ reader.finalStatus = 1
  /\ writer.pc = 4

C12_OversizeBecomesError ==
  /\ view.length <= Capacity
  /\ Len(writer.encoded) > Capacity =>
        /\ view.status \in {0, 2}
        /\ view.status = 2 =>
              /\ view.length = Len(Fallback)
              /\ SubSeq(view.payload, 1, view.length) = Fallback
        /\ reader.pc # "returned"
        /\ reader.pc \in {"done", "failed"} =>
              reader.finalStatus = 2 /\ reader.decoded = Fallback

C12_Witness ==
  /\ Len(writer.encoded) > Capacity /\ writer.statusCode = 1
  /\ PayloadStatus(writer.encoded) = "ok"
  /\ reader.pc = "failed" /\ reader.decoded = Fallback

\* C13: whenever the worker closes the stdin of a child, a shutdown request
\* it has posted to a host process is outstanding in a pending table.
C13_ShutdownPostedBeforeStdinCloses ==
  [][\A c \in 1..MaxChildren :
        (wk.alive /\ ~wk.kids[c].stdinEnded /\ wk'.kids[c].stdinEnded) =>
           \E h \in 1..(MaxChildren + 1) :
              \E p \in wk.hp[h].pending \cup wk'.hp[h].pending :
                 p.command = "shutdown"]_vars

\* C14: the format requests written to two different children carry
\* different session ids.
C14_SessionPerChild ==
  \A c, d \in 1..MaxChildren :
     (c # d /\ wk.kids[c].fmtSent > 0 /\ wk.kids[d].fmtSent > 0) =>
        wk.kids[c].session # wk.kids[d].session

\* C15: a child that has answered a format request with ok:false and whose
\* fatal error notification the worker has handled has been invalidated by
\* the worker: its stdin is closed, it has been sent the termination signal
\* and no host process listens to it any more.
C15_GuardTripInvalidatesChild ==
  \A c \in 1..MaxChildren :
     (wk.kids[c].fmtFailed /\ wk.kids[c].fatal) =>
        /\ wk.kids[c].killed
        /\ \A h \in 1..(MaxChildren + 1) : wk.hp[h].child # c

\* C16: the host ends with code 86 only out of a memory-guard trip; when the
\* frame just handled tripped the guard, the error response and the fatal
\* notification are the last two messages written, and the host has ended
\* with code 86 if the working set measured after the collection exceeds 0.9
\* times the budget and otherwise runs on, at the top of its loop.
C16_ExitAfterGuardTrip ==
  /\ host.exitCode = 86 => host.post # 0
  /\ host.post # 0 =>
        /\ Len(host.stdout) >= 2
        /\ LET n == Len(host.stdout)
               id == host.read[Len(host.read)]
           IN /\ host.stdin[id] = "format"
              /\ host.stdout[n - 1] =
                    [type |-> "response", command |-> "format", requestId |-> id,
                     ok |-> FALSE, errorCode |-> "MEMORY_BUDGET_EXCEEDED",
                     severity |-> ""]
              /\ host.stdout[n].type = "notification"
              /\ host.stdout[n].severity = "fatal"
              /\ host.stdout[n].errorCode = "MEMORY_BUDGET_EXCEEDED"
        /\ IF host.post * 10 > DefaultMemoryBudgetMb * 9
           THEN host.pc = "exited" /\ host.exitCode = 86
           ELSE host.pc = "readHeaders" /\ host.exitCode = -1

\* the guard tripped, the collection brought the working set under 0.9 times
\* the budget, and input is left to read
C16_Witness ==
  /\ host.post = 460 /\ host.pc = "readHeaders"
  /\ host.pos < Len(host.stdin)

\* the responses to the bodies read, in the order written; the responses to
\* header blocks without a usable Content-Length are left out
Responses ==
  SelectSeq(host.stdout,
            LAMBDA m : m.type = "response" /\ m.errorCode # "INVALID_HEADERS")
Answered == [i \in 1..Len(Responses) |-> Responses[i].requestId]

\* the requestId the response to each body read has to carry: the
\* request's, or null (0) when the body does not parse
Expected(read) ==
  [i \in 1..Len(read) |->
      IF host.stdin[read[i]] \in {"initialize", "format", "shutdown", "unknown", "throws",
                                  "badtype", "nocommand"}
      THEN read[i] ELSE 0]

Front(s) == SubSeq(s, 1, Len(s) - 1)

\* the handling of the last body read failed with an exception
LastThrew ==
  /\ host.read # <<>>
  /\ host.stdin[host.read[Len(host.read)]] = "throws"
  /\ host.pc = "exited"

C18_ShutdownEndsHost ==
  \A i \in 1..Len(host.read) :
     LET p == host.read[i]
     IN (host.stdin[p] = "shutdown" /\ ~(i = Len(host.read) /\ host.pc = "dispatch")) =>
          /\ i = Len(host.read)
          /\ host.pc = "exited" /\ host.exitCode = 0
          /\ host.pos = p
          /\ host.stdout[Len(host.stdout)] =
                [type |-> "response", command |-> "shutdown", requestId |-> p,
                 ok |-> TRUE, errorCode |-> "", severity |-> ""]
          /\ Cardinality({k \in 1..Len(host.stdout) :
                            host.stdout[k].requestId = p}) = 1

\* a shutdown request was handled after another request, with a whole frame
\* behind it on the input
C18_Witness ==
  /\ host.pc = "exited" /\ Len(host.read) = 2
  /\ host.stdin[host.pos] = "shutdown"
  /\ Len(host.stdin) >= host.pos + 3

\* C19: once a read has met the end of standard input, the host ends with
\* exit code 0.
C19_EndOfInputExitsZero ==
  host.eof ~> (host.pc = "exited" /\ host.exitCode = 0)

\* the input ended inside a body, after a request that was answered
C19_Witness ==
  /\ host.eof /\ host.pc = "exited" /\ host.exitCode = 0
  /\ host.read # <<>>
  /\ host.pos = Len(host.stdin) /\ host.pos >= 2
  /\ host.stdin[host.pos] = "blank" /\ host.stdin[host.pos - 1] = "cl"

\* C20: an INVALID_HEADERS error is the last message the host writes, and
\* the host has ended once it is written.
C20_InvalidHeadersTerminates ==
  \A k \in 1..Len(host.stdout) :
     host.stdout[k].errorCode = "INVALID_HEADERS" =>
        k = Len(host.stdout) /\ host.pc = "exited"

\* C21: an INVALID_MESSAGE error that carries no requestId is an error
\* notification, not a response.
C21_InvalidMessageWithoutIdNotifies ==
  \A k \in 1..Len(host.stdout) :
     (host.stdout[k].errorCode = "INVALID_MESSAGE" /\ host.stdout[k].requestId = 0) =>
        host.stdout[k].type = "notification"

\* the command of the request in a body: "" when the body holds none
CommandOf(body) ==
  CASE body \in {"initialize", "format", "shutdown", "unknown"} -> body
    [] body = "badtype" -> "ping"
    [] OTHER -> ""

\* C22: the i-th response to a body carries the requestId of the i-th body
\* read (null when the body holds none) and its command when it has one; a
\* response to a header block carries no requestId; no notification carries
\* a requestId.
C22_ResponsesEchoRequest ==
  /\ \A i \in 1..Len(Responses) :
        LET body == host.stdin[host.read[i]]
        IN /\ Responses[i].requestId = Expected(host.read)[i]
           /\ CommandOf(body) # "" => Responses[i].command = CommandOf(body)
  /\ \A k \in 1..Len(host.stdout) :
        /\ host.stdout[k].type = "notification" => host.stdout[k].requestId = 0
        /\ host.stdout[k].errorCode = "INVALID_HEADERS" => host.stdout[k].requestId = 0

\* three bodies were answered: a request, a message of another type and a
\* request of an unknown command
C22_Witness ==
  /\ Len(Responses) = 3
  /\ {host.stdin[host.read[i]] : i \in 1..3} = {"initialize", "badtype", "unknown"}
  /\ \E k \in 1..Len(host.stdout) : host.stdout[k].type = "notification"

\* the envelopes of the first n pieces of the stream
SentUpTo(n) == [i \in 1..n |-> codec.pieces[i].e]

\* the characters of the first n pieces of the stream
LengthUpTo(n) == Len(Concat(SubSeq(codec.pieces, 1, n)))

AllEncoded == \A i \in 1..Len(codec.pieces) : codec.pieces[i].kind = "encoded"

\* C23: parseEnvelopes applied to encodeMessage(e) returns exactly e, for
\* every envelope e, those with characters outside ASCII included.
C23_RoundTrip ==
  (codec.parsed /\ Len(codec.pieces) = 1 /\ AllEncoded) =>
     codec.batch = [envelopes |-> <<codec.pieces[1].e>>, threw |-> FALSE]

\* C24: of a stream of two encoded envelopes delivered in chunks cut
\* anywhere, the streaming decoder has yielded exactly the envelopes whose
\* frames have arrived whole, in order, and holds the characters of the
\* incomplete frame behind them in its buffer.
C24_ChunkedDecoding ==
  (Len(codec.pieces) = 2 /\ AllEncoded) =>
     LET whole == {n \in 0..2 : LengthUpTo(n) <= codec.pos}
         n == CHOOSE m \in whole : \A j \in whole : j <= m
     IN /\ codec.envelopes = SentUpTo(n)
        /\ codec.stdoutBuffer = SubSeq(codec.stream, LengthUpTo(n) + 1, codec.pos)

\* C25: a frame whose Content-Length is missing or is not a non-negative
\* decimal integer yields no envelope: the batch parser returns without one
\* and the streaming decoder, having received the whole frame, has none.
C25_BadContentLengthYieldsNothing ==
  (Len(codec.pieces) = 1 /\ codec.pieces[1].kind # "encoded") =>
     /\ codec.parsed => codec.batch = [envelopes |-> <<>>, threw |-> FALSE]
     /\ codec.envelopes = <<>>

\* C26: when a format call has ended in terminal failure and a telemetry
\* file is configured, a line with success false that records the failure
\* has been written during the call.
C26_FailureTelemetry ==
  (AllFailed /\ cl.telemetryFile) =>
     \E i \in 1..Len(cl.telemetry) :
        ~cl.telemetry[i].success /\ cl.telemetry[i].error = cl.lastError

\* C27: the fallback warning has been logged exactly once as soon as one
\* call has fallen back, however many did, and a call that failed outside
\* strict mode returned its source text.
C27_OneFallbackWarning ==
  /\ cl.warnings.fallback = (IF cl.fallbacks > 0 THEN 1 ELSE 0)
  /\ (AllFailed /\ ~cl.strict) => cl.ret = [kind |-> "returned", val |-> cl.source]

\* the second call of a client has fallen back as the first one did
C27_Witness ==
  /\ AllFailed /\ ~cl.strict
  /\ cl.calls = 2 /\ cl.fallbacks = 2
  /\ cl.warnings.fallback = 1

\* C28: the memory-pressure warning has been logged once if three format
\* responses in a row have reported a working set at or above 0.85 times the
\* budget, and not at all otherwise.
C28_PressureWarningAfterThreeInARow ==
  cl.warnings.pressure = (IF cl.seenThreeHigh THEN 1 ELSE 0)

\* C29: once three format requests have been answered with
\* MEMORY_BUDGET_EXCEEDED the memory-guard warning has been logged, once.
C29_GuardWarningAfterThreeTrips ==
  /\ cl.warnings.guard <= 1
  /\ cl.seenGuard >= 3 => cl.warnings.guard = 1

\* C30: a smoke test that passed read the initialize response with ok true
\* within 8 s of waiting for it and saw the host exit with code 0 within 4 s
\* of the shutdown request, and the host wrote no error notification before
\* the test ended.
C30_SmokeTestPasses ==
  smoke.pc = "passed" =>
     /\ smoke.initAt # -1 /\ smoke.initAt - smoke.waitAt <= SMOKE_TEST_TIMEOUT_MS
     /\ smoke.exitCode = 0 /\ smoke.shutdownAt # -1
     /\ smoke.exitAt - smoke.shutdownAt <= SMOKE_TEST_SHUTDOWN_TIMEOUT_MS
     /\ ~smoke.errorEmitted


\* ------------------------------------------------------------ range, options
RequestedStart == IF calc.options.rangeStart.kind = "num"
                  THEN Trunc(calc.options.rangeStart.tenths) ELSE 0
RequestedEnd == IF calc.options.rangeEnd.kind = "num"
                THEN Trunc(calc.options.rangeEnd.tenths) ELSE calc.length
ClampedEnd == IF RequestedEnd > calc.length THEN calc.length ELSE RequestedEnd
Resolved == calc.fn = "print" /\ calc.stage # "args"

\* C31: resolveRange returns null exactly when the requested range covers the
\* whole document, when its end (clamped to the text) is not after its start,
\* or when both bounds are absent; otherwise it returns {start, end} with
\* 0 <= start < end <= |text|, end being the requested end clamped to |text|.
C31_ResolveRange ==
  Resolved =>
    LET covers == RequestedStart <= 0 /\ RequestedEnd >= calc.length
        endNotAfterStart == ClampedEnd <= RequestedStart \/ ClampedEnd <= 0
        bothAbsent == calc.options.rangeStart.kind # "num"
                      /\ calc.options.rangeEnd.kind # "num"
    IN /\ calc.range.null <=> (covers \/ endNotAfterStart \/ bothAbsent)
       /\ ~calc.range.null =>
            /\ 0 <= calc.range.start
            /\ calc.range.start < calc.range.end
            /\ calc.range.end <= calc.length
            /\ calc.range.end = ClampedEnd
            /\ calc.range.start = (IF RequestedStart < 0 THEN 0 ELSE RequestedStart)

C31_Witness ==
  /\ Resolved
  /\ calc.options.rangeStart = Num(10) /\ calc.options.rangeEnd = Num(30)
  /\ calc.length = 2
  /\ calc.range = Range(1, 2)

\* C32: resolveFormattingOptions yields printWidth = max(40, trunc(v)) for a
\* finite number v and 80 otherwise, tabWidth = max(1, trunc(v)) for a finite
\* number v and 4 otherwise, endOfLine "crlf" only for the input "crlf" and
\* "lf" otherwise, and a boolean useTabs; printWidth >= 40 and tabWidth >= 1.
C32_ResolveFormattingOptions ==
  Resolved =>
    LET given == calc.options
        result == calc.formattingOptions
        Whole(v, n) == \/ v.tenths >= 0 /\ 10 * n <= v.tenths /\ v.tenths < 10 * n + 10
                       \/ v.tenths < 0 /\ 10 * n >= v.tenths /\ v.tenths > 10 * n - 10
        AtLeast(v, least, n) == /\ n >= least
                                /\ n > least => Whole(v, n)
                                /\ n = least => v.tenths < 10 * least + 10
    IN /\ IF given.printWidth.kind = "num"
          THEN AtLeast(given.printWidth, 40, result.printWidth)
          ELSE result.printWidth = 80
       /\ IF given.tabWidth.kind = "num"
          THEN AtLeast(given.tabWidth, 1, result.tabWidth)
          ELSE result.tabWidth = 4
       /\ result.endOfLine = (IF given.endOfLine = "crlf" THEN "crlf" ELSE "lf")
       /\ result.useTabs \in BOOLEAN
       /\ result.printWidth \in Int /\ result.printWidth >= 40
       /\ result.tabWidth \in Int /\ result.tabWidth >= 1

C32_Witness ==
  /\ Resolved
  /\ calc.options.printWidth = Num(-100) /\ calc.formattingOptions.printWidth = 40
  /\ calc.options.tabWidth = Num(29) /\ calc.formattingOptions.tabWidth = 2
  /\ calc.options.endOfLine = "cr" /\ calc.formattingOptions.endOfLine = "lf"

LiveChildren == {c \in 1..MaxChildren : wk.kids[c].st = "running" /\ ~wk.kids[c].killed}

\* C33: the disposal paths of the worker never race: there is never more than
\* one running child that has not been disposed, and every such child is the
\* child of the HostProcess the worker refers to (this.host).
C33_DisposalsDoNotRace ==
  (wk.alive /\ ~wk.zombie) =>
    /\ Cardinality(LiveChildren) <= 1
    /\ \A c \in LiveChildren : wk.host # 0 /\ wk.hp[wk.host].child = c


\* -------------------------------------------------------------- pending table
\* C35: each request is settled at most once; when it is settled its entry
\* is removed and its timer cancelled; the table holds exactly the requests
\* made and not yet settled; it is empty after dispose, rejectAll and the
\* child's exit.
C35_PendingTable ==
  /\ \A id \in 1..MaxRequests :
        /\ pend.reqs[id].outcomes <= 1
        /\ pend.reqs[id].settled <=> pend.reqs[id].outcomes = 1
        /\ pend.reqs[id].settled => id \notin pend.pending /\ ~pend.reqs[id].timer
  /\ pend.pending = {id \in 1..MaxRequests : pend.reqs[id].made /\ ~pend.reqs[id].settled}
  /\ pend.last \in {"dispose", "rejectAll", "exit"} => pend.pending = {}

C35_Witness ==
  /\ pend.last = "exit"
  /\ pend.reqs[1].outcome = "resolved"
  /\ pend.reqs[2].outcome = "rejected" /\ pend.reqs[2].write = "queued"
  /\ pend.reqs[3].outcome = "rejected" /\ pend.reqs[3].write = "done"


\* -------------------------------------------------------------------- workers
RunningWorkers == {w \in 1..MaxWorkers : pool.ws[w].st = "running"}

\* C34: the client has at most one live worker, its worker reference denotes
\* the most recently created worker unless that one was disposed, and no
\* event of one worker clears the reference to, or disposes, another worker.
C34_OneLiveWorker ==
  /\ Cardinality(RunningWorkers) <= 1
  /\ \A w \in RunningWorkers : pool.worker = w /\ pool.created = w
  /\ pool.worker # 0 => pool.worker = pool.created /\ ~pool.ws[pool.worker].disposed
  /\ ~pool.clearedNewer
  /\ ~pool.disposedNewer


\* --------------------------------------------------------------------- timing
\* C36: when the host never answers initialize, or never answers format, the
\* worker gives up, its retries included, and writes status 2 before the
\* caller's wait of requestTimeout + handshakeTimeout + 1 s elapses: no
\* Atomics.wait of the call times out.
C36_WorkerGivesUpBeforeCaller ==
  timed.mode \in {"hangsOnInitialize", "hangsOnFormat"} => ~timed.timedOut

\* C37: every HostClient.format call ends, returning or throwing, after at
\* most restartAttempts attempts, each of which blocks for at most
\* requestTimeout + handshakeTimeout + 1 s, whatever worker and host do.
C37_FormatTerminates ==
  /\ [](/\ timed.attempt <= restartAttempts
        /\ timed.pc = "waiting" =>
             /\ timed.attempt < restartAttempts
             /\ timed.now - timed.waitStart
                  <= requestTimeoutMs + handshakeTimeoutMs + Second)
  /\ <>(timed.pc \in {"returned", "threw"})

C37_Witness ==
  /\ timed.pc = "threw"
  /\ timed.attempt = 2 /\ restartAttempts = 2
  /\ timed.timedOut /\ timed.failed = 1


\* ---------------------------------------------------- diagnostics, line ends
\* C39: for every occurrence of "TODO" at index i of the content the
\* diagnostics hold a warning "TODO comment detected." with start i and end
\* i + 4, one per occurrence.
C39_TodoDiagnostics ==
  (calc.fn = "todo" /\ calc.done) =>
    LET at == {i \in 0..Len(calc.content) : StartsWithAt(calc.content, i, Todo)}
        warnings == {k \in 1..Len(calc.diagnostics) :
                        /\ calc.diagnostics[k].severity = "warning"
                        /\ calc.diagnostics[k].message = "TODO comment detected."}
    IN /\ \A i \in at : \E k \in warnings :
             calc.diagnostics[k].start = i /\ calc.diagnostics[k].end = i + 4
       /\ Cardinality(warnings) = Cardinality(at)

\* C40: the text returned ends with exactly one line terminator of the
\* requested kind and all its line endings are of that kind: for crlf every
\* line feed follows a carriage return, every carriage return precedes a line
\* feed and the text ends with one "\r\n"; for lf no carriage return remains
\* and the text ends with one "\n".
C40_LineEndings ==
  (calc.fn = "newline" /\ calc.done) =>
    LET text == calc.formatted
        n == Len(text)
    IN IF calc.endOfLine = "crlf"
       THEN /\ \A i \in 1..n : text[i] = "n" => i > 1 /\ text[i - 1] = "r"
            /\ \A i \in 1..n : text[i] = "r" => i < n /\ text[i + 1] = "n"
            /\ EndsWith(text, <<"r", "n">>)
            /\ ~EndsWith(text, <<"r", "n", "r", "n">>)
       ELSE /\ \A i \in 1..n : text[i] # "r"
            /\ EndsWith(text, <<"n">>)
            /\ ~EndsWith(text, <<"n", "n">>)

====
